---- MODULE Spec2Model ----
\* Statute structuring engine of the parsers package: per-jurisdiction
\* article segmentation (the _split_ functions), hierarchy detection (the
\* _detect_hierarchy_ functions), the hierarchy join of
\* extract_structured_articles and paragraph decomposition (the
\* _parse_paragraphs_ functions).
\*
\* A text is a sequence of lines.  A line is a record
\*   [k |-> kind, id |-> number, n |-> length in characters]
\* and two lines are the same string iff the records are equal.  Kinds:
\*   "art"    line-anchored article header in the grammar of the selected
\*            variant ("Article 3", "제3조(목적)", "§ 3. Title", "3. Title")
\*   "artDel" such a header that itself carries the deletion vocabulary
\*            ("제3조삭제", "§ 3. Repealed.", "Article 3 (deleted)")
\*   "artE"   an "Article N" header inside a document of another grammar
\*   "txt"    body text
\*   "ref"    body text with an "Article id " cross-reference mid-line
\*   "del"    a body line "(deleted)" / "(repealed)"
\*   "blank"  an empty line
\*   "noise"  a running page header / metadata line of the variant
\*   "part", "chap", "sect"  hierarchy headings of the variant
\*   "recital" a preamble line that opens with a recital keyword
\* The lines of an article body are described with the decomposers; a
\* document holds a marker line of the outermost level of its variant.
\*
\* rows holds the join labels of each entry of articles, records the rows of
\* the DataFrame grouped by entry, ai the use_ai_titles and gemini_api_key
\* arguments with the way the language model answers.
\*
\* A file path is a record [kw |-> the registry keywords that occur in the
\* lower-cased path, cjk |-> the file name has a CJK ideograph, ext |-> the
\* lower-cased extension].
EXTENDS Integers, Sequences, FiniteSets, TLC

VARIABLES variant, text, pc, articles, hierarchy, rows, probe, found, body, units,
          path, parser, applied, history, ai, records, call, job, jp

vars == <<variant, text, pc, articles, hierarchy, rows, probe, found, body, units,
          path, parser, applied, history, ai, records, call, job, jp>>

\* ---------------------------------------------------------------- bounds
MaxLines == 4
MaxCalls == 3
NumIds == 2
ShortLen == 40
LongLen == 90
HeadLen == 9

\* ------------------------------------------------------ program constants
PreambleId == 0

\* _clean_english_article: a line of the first HEADER_LINES lines is kept when
\* it is longer than CLEAN_MIN_LINE; a cleaned text shorter than
\* CLEAN_MIN_TEXT is given up
HEADER_LINES == 3
CLEAN_MIN_LINE == 20
CLEAN_MIN_TEXT == 10

\* _parse_preamble: a shorter preamble is not parsed
PREAMBLE_PARSE_MIN == 20

\* _extract_article_title: shortest title, longest title kept whole
TITLE_MIN == 3
TITLE_MAX == 100

\* extract_structured_articles(file_path): use_ai_titles = False, no key
AiOff == [use_ai_titles |-> FALSE, key |-> "", response |-> "title"]

\* no translation call, no translation job and no Japanese document while the
\* parsers package is at work
NoCall == [service |-> "", returned |-> TRUE]
NoJob == [entry |-> "", returned |-> TRUE]
NoJapan == [returned |-> TRUE]

\* no file path, no parser class and no component before a document is given
NoPath == [kw |-> {}, cjk |-> FALSE, ext |-> ""]
NoParser == ""
NoComponents == [segmenter |-> "", hierarchy |-> "", cleaner |-> "", decomposer |-> ""]

\* Python's -1 of str.find and of a search without match
NotFound == 0 - 1

\* article_text[:100]
PREFIX_LEN == 100
MIN_CONTENT_LEN_EPC == 80
MIN_CONTENT_LEN_US == 60
MIN_CONTENT_LEN_HK == 80
MIN_CONTENT_LEN_NZ == 50
PREAMBLE_MIN_US == 50
PREAMBLE_MIN_NZ == 50
MAX_ID_DIGITS == 4

\* an article number run together from two by a broken line wrap
\* ("Article 169196")
LONG_ID == 169196

Variants == {"korea", "taiwan", "epc", "us", "hk", "nz"}

Line(k, id, n) == [k |-> k, id |-> id, n |-> n]

Blank == Line("blank", 0, 0)

\* the fixed text "(삭제)" that replaces the body of a deleted article
Sentinel == <<Line("sentinel", 0, 4)>>

\* ------------------------------------------------------- string helpers
\* len(s) of the string a sequence of lines stands for: the lines joined by "\n"
RECURSIVE SumLen(_)
SumLen(s) == IF s = <<>> THEN 0 ELSE Head(s).n + SumLen(Tail(s))

CharLen(s) == IF s = <<>> THEN 0 ELSE SumLen(s) + Len(s) - 1

RECURSIVE LStrip(_)
LStrip(s) == IF s # <<>> /\ Head(s).k = "blank" THEN LStrip(Tail(s)) ELSE s

RECURSIVE RStrip(_)
RStrip(s) ==
  IF s # <<>> /\ s[Len(s)].k = "blank" THEN RStrip(SubSeq(s, 1, Len(s) - 1)) ELSE s

\* str.strip(): leading and trailing blank lines go
Strip(s) == RStrip(LStrip(s))

RECURSIVE SelectLines(_, _)
SelectLines(s, keep) ==
  IF s = <<>> THEN <<>>
  ELSE IF Head(s).k \in keep THEN <<Head(s)>> \o SelectLines(Tail(s), keep)
       ELSE SelectLines(Tail(s), keep)

\* re.sub(r"\n{3,}", "\n\n", text): a run of blank lines becomes one blank line
RECURSIVE CollapseBlank(_)
CollapseBlank(s) ==
  IF Len(s) < 2 THEN s
  ELSE IF s[1].k = "blank" /\ s[2].k = "blank" THEN CollapseBlank(Tail(s))
       ELSE <<Head(s)>> \o CollapseBlank(Tail(s))

\* number of decimal digits of an article numeral
RECURSIVE Digits(_)
Digits(i) == IF i < 10 THEN 1 ELSE 1 + Digits(i \div 10)

\* variant of IdxFrom for a pattern without the line anchor: it also matches
\* the marker inside a cross-reference line
RECURSIVE IdxFromUnanchored(_, _, _)
IdxFromUnanchored(s, kinds, i) ==
  IF i > Len(s) THEN <<>>
  ELSE IF s[i].k \in kinds \cup {"ref"} THEN <<i>> \o IdxFromUnanchored(s, kinds, i + 1)
       ELSE IdxFromUnanchored(s, kinds, i + 1)

\* list(pattern.finditer(text)) of a pattern that starts with (?:^|\n):
\* indices of s, ascending, whose line satisfies the kind set
RECURSIVE IdxFrom(_, _, _)
IdxFrom(s, kinds, i) ==
  IF i > Len(s) THEN <<>>
  ELSE IF s[i].k \in kinds THEN <<i>> \o IdxFrom(s, kinds, i + 1)
       ELSE IdxFrom(s, kinds, i + 1)

\* ------------------------------------------------------ segment: helpers
Article(id, txt, deleted) == [id |-> id, text |-> txt, deleted |-> deleted]

\* variant of PreambleOnly that keeps the surrounding whitespace
PreambleUnstripped(t) ==
  IF Strip(t) # <<>> THEN <<Article(PreambleId, t, FALSE)>> ELSE <<>>

\* [{"id": "전문", "text": text.strip()}] if text.strip() else []
PreambleOnly(t) ==
  IF Strip(t) # <<>> THEN <<Article(PreambleId, Strip(t), FALSE)>> ELSE <<>>

\* text[start:end].strip() of candidate i, from its marker line up to the
\* line before the next candidate (or the end of the text)
Chunk(t, c, i) ==
  Strip(SubSeq(t, c[i], IF i < Len(c) THEN c[i + 1] - 1 ELSE Len(t)))

\* text[:first_start].strip()
PreambleBefore(t, c) == Strip(SubSeq(t, 1, c[1] - 1))

HasKind(s, kinds) == \E i \in DOMAIN s : s[i].k \in kinds

\* variant of Longer that lets a later candidate of equal length win
LongerOrEqual(a, b) == CharLen(a.text) >= CharLen(b.text)

\* len(a["text"]) > len(seen[aid]["text"])
Longer(a, b) == CharLen(a.text) > CharLen(b.text)

\* variants of Survives: without the length filter, without the deletion bypass
SurvivesAlways(a, min) == TRUE

SurvivesByLength(a, min) == CharLen(a.text) >= min

\* len(v["text"]) >= MIN_CONTENT_LEN or v.get("deleted")
Survives(a, min) == CharLen(a.text) >= min \/ a.deleted

\* seen = {}; for a in raw_articles:
\*   if aid not in seen or len(a["text"]) > len(seen[aid]["text"]): seen[aid] = a
RECURSIVE DedupLongest(_, _)
DedupLongest(raw, seen) ==
  IF raw = <<>> THEN seen
  ELSE LET a == Head(raw)
       IN DedupLongest(Tail(raw),
            IF a.id \notin DOMAIN seen \/ Longer(a, seen[a.id])
            THEN (a.id :> a) @@ seen
            ELSE seen)

\* id_order: the ids of raw_articles that are in filtered, each once, in the
\* order of their first appearance
RECURSIVE IdOrder(_, _, _)
IdOrder(raw, filtered, acc) ==
  IF raw = <<>> THEN acc
  ELSE LET a == Head(raw)
       IN IdOrder(Tail(raw), filtered,
            IF a.id \in filtered /\ ~(\E j \in DOMAIN acc : acc[j] = a.id)
            THEN Append(acc, a.id) ELSE acc)

\* entry["id"] += " (삭제)"; entry["text"] = "(삭제)" for a flagged entry
Emit(entry) ==
  IF entry.deleted THEN Article(entry.id, Sentinel, TRUE) ELSE entry

RECURSIVE EmitAll(_, _)
EmitAll(order, filtered) ==
  IF order = <<>> THEN <<>>
  ELSE <<Emit(filtered[Head(order)])>> \o EmitAll(Tail(order), filtered)

\* ------------------------------------------------- segment: Korea, Taiwan
\* for i, match in enumerate(matches): articles.append({"id", "text": chunk});
\* a chunk that starts with "제N조 삭제" becomes the sentinel
RECURSIVE KoreanFrom(_, _, _)
KoreanFrom(t, c, i) ==
  IF i > Len(c) THEN <<>>
  ELSE LET chunk == Chunk(t, c, i)
           a == IF t[c[i]].k = "artDel"
                THEN Article(t[c[i]].id, Sentinel, TRUE)
                ELSE Article(t[c[i]].id, chunk, FALSE)
       IN <<a>> \o KoreanFrom(t, c, i + 1)

split_korean(t) ==
  LET c == IdxFrom(t, {"art", "artDel"}, 1)
  IN IF c = <<>> THEN PreambleOnly(t)
     ELSE (IF PreambleBefore(t, c) # <<>>
           THEN <<Article(PreambleId, PreambleBefore(t, c), FALSE)>> ELSE <<>>)
          \o KoreanFrom(t, c, 1)

RECURSIVE ChineseFrom(_, _, _)
ChineseFrom(t, c, i) ==
  IF i > Len(c) THEN <<>>
  ELSE <<Article(t[c[i]].id, Chunk(t, c, i), FALSE)>> \o ChineseFrom(t, c, i + 1)

split_chinese(t) ==
  LET c == IdxFrom(t, {"art", "artDel"}, 1)
  IN IF c = <<>> THEN PreambleOnly(t)
     ELSE (IF PreambleBefore(t, c) # <<>>
           THEN <<Article(PreambleId, PreambleBefore(t, c), FALSE)>> ELSE <<>>)
          \o ChineseFrom(t, c, 1)

\* ------------------------------------------------- segment: EPC / generic
RECURSIVE DropLines(_, _)
DropLines(s, kinds) ==
  IF s = <<>> THEN <<>>
  ELSE IF Head(s).k \in kinds THEN DropLines(Tail(s), kinds)
       ELSE <<Head(s)>> \o DropLines(Tail(s), kinds)

\* the page header "\nNN\nEuropean Patent Convention ..." is deleted together
\* with its leading newline (so not at the very start of the text), then
\* blank runs are collapsed
clean_epc_annotations(t) ==
  IF t = <<>> THEN t
  ELSE CollapseBlank(<<Head(t)>> \o DropLines(Tail(t), {"noise"}))

\* the lines the pattern (Article|Section|Rule|Regulation)\s+\d+ matches at a
\* line start: the headers of an EPC document, the "Article N" lines of another
EnglishMarkers(v) == IF v = "epc" THEN {"art", "artDel", "artE"} ELSE {"artE"}

\* hierarchy_patterns: PART/CHAPTER/SECTION + roman numeral lines; the headings
\* of the other grammars ("Part 1", "Division 1—...") do not match them
EnglishHierarchyLines(v) == IF v = "epc" THEN {"part", "chap", "sect"} ELSE {}

\* 1차..3차: chunk, implausible-id filter, hierarchy lines stripped from the
\* body, deleted flag
RECURSIVE EnglishRaw(_, _, _, _)
EnglishRaw(v, t, c, i) ==
  IF i > Len(c) THEN <<>>
  ELSE LET chunk == Chunk(t, c, i)
           cleaned == Strip(DropLines(chunk, EnglishHierarchyLines(v)))
           a == Article(t[c[i]].id, cleaned, HasKind(cleaned, {"del", "artDel"}))
       IN (IF Digits(t[c[i]].id) > MAX_ID_DIGITS THEN <<>> ELSE <<a>>)
          \o EnglishRaw(v, t, c, i + 1)

split_english(v, t0) ==
  LET t == IF v = "epc" /\ HasKind(t0, {"noise"}) THEN clean_epc_annotations(t0)
           ELSE t0
      c == IdxFrom(t, EnglishMarkers(v), 1)
      raw == EnglishRaw(v, t, c, 1)
      seen == DedupLongest(raw, <<>>)
      filtered == {k \in DOMAIN seen : Survives(seen[k], MIN_CONTENT_LEN_EPC)}
      preamble == PreambleBefore(t, c)
  IN IF c = <<>> THEN PreambleOnly(t)
     ELSE (IF preamble # <<>> THEN <<Article(PreambleId, preamble, FALSE)>> ELSE <<>>)
          \o EmitAll(IdOrder(raw, filtered, <<>>), seen)

\* --------------------------------------------------------- segment: USA
RECURSIVE ReplaceLines(_, _, _)
ReplaceLines(s, kinds, by) ==
  IF s = <<>> THEN <<>>
  ELSE <<IF Head(s).k \in kinds THEN by ELSE Head(s)>> \o ReplaceLines(Tail(s), kinds, by)

\* each metadata line ("End of Document", "Currentness", ...) is replaced by
\* the empty string, then blank runs are collapsed
clean_us_westlaw_metadata(t) == CollapseBlank(ReplaceLines(t, {"noise"}, Blank))

RECURSIVE UsRaw(_, _, _)
UsRaw(t, c, i) ==
  IF i > Len(c) THEN <<>>
  ELSE LET chunk == Chunk(t, c, i)
       IN <<Article(t[c[i]].id, chunk, HasKind(chunk, {"del", "artDel"}))>>
          \o UsRaw(t, c, i + 1)

split_us_english(t0) ==
  LET t == clean_us_westlaw_metadata(t0)
      c == IdxFrom(t, {"art", "artDel"}, 1)
      raw == UsRaw(t, c, 1)
      seen == DedupLongest(raw, <<>>)
      filtered == {k \in DOMAIN seen : Survives(seen[k], MIN_CONTENT_LEN_US)}
      preamble == PreambleBefore(t, c)
  IN IF c = <<>> THEN PreambleOnly(t)
     ELSE (IF preamble # <<>> /\ CharLen(preamble) > PREAMBLE_MIN_US
           THEN <<Article(PreambleId, preamble, FALSE)>> ELSE <<>>)
          \o EmitAll(IdOrder(raw, filtered, <<>>), seen)

\* ---------------------------------------------------- segment: Hong Kong
\* str.find on lines: the first index at which b occurs in t as a run of whole
\* lines, 0 when it does not occur (Python's -1)
Find(b, t) ==
  LET hits == {i \in 1..(Len(t) - Len(b) + 1) : SubSeq(t, i, i + Len(b) - 1) = b}
  IN IF b = <<>> \/ hits = {} THEN 0
     ELSE CHOOSE i \in hits : \A j \in hits : i <= j

Min(S) == CHOOSE i \in S : \A j \in S : i <= j

\* the running header ("\nPatents Ordinance ...", "\nCap. 514 ...") is replaced
\* by "\n": the line stays as an empty line; a header on the first line has no
\* leading newline and is not matched
hk_strip_headers(t) ==
  IF t = <<>> THEN t ELSE <<Head(t)>> \o ReplaceLines(Tail(t), {"noise"}, Blank)

\* trail_match: a block at the end of the chunk made of "Division N—..." lines,
\* a bare "Part N" line, non-empty lines, and a last line that is a
\* parenthesised line or a "Division N—..." line
HkTrailStarts(chunk) ==
  {s \in 2..Len(chunk) :
     \E j \in s..(Len(chunk) - 1) :
        /\ \A m \in s..(j - 1) : chunk[m].k = "chap"
        /\ chunk[j].k = "part"
        /\ \A m \in (j + 1)..Len(chunk) : chunk[m].k # "blank"
        /\ chunk[Len(chunk)].k \in {"del", "chap"}}

\* the lines that start with a letter followed by a character other than "("
HkLetterLines == {"txt", "ref", "artE", "part", "chap", "sect"}

\* a "Division N—title" line at the end of the chunk, optionally followed by
\* one continuation line and by parenthesised lines
HkDivisionStarts(chunk) ==
  {s \in 2..Len(chunk) :
     /\ chunk[s].k = "chap"
     /\ \/ \A m \in (s + 1)..Len(chunk) : chunk[m].k = "del"
        \/ /\ s + 1 <= Len(chunk)
           /\ chunk[s + 1].k \in HkLetterLines
           /\ \A m \in (s + 2)..Len(chunk) : chunk[m].k = "del"}

HkChunk(chunk0) ==
  LET c1 == IF HkTrailStarts(chunk0) = {} THEN chunk0
            ELSE Strip(SubSeq(chunk0, 1, Min(HkTrailStarts(chunk0)) - 1))
  IN IF HkDivisionStarts(c1) = {} THEN c1
     ELSE Strip(SubSeq(c1, 1, Min(HkDivisionStarts(c1)) - 1))

RECURSIVE HkRaw(_, _, _)
HkRaw(t, c, i) ==
  IF i > Len(c) THEN <<>>
  ELSE <<Article(t[c[i]].id, HkChunk(Chunk(t, c, i)), FALSE)>> \o HkRaw(t, c, i + 1)

\* first_body_pos: text.find of the text of the first raw article whose id is
\* in filtered; the preamble is what precedes it (the text of a raw article is
\* a stripped prefix of its span, so it always occurs in the text)
HkPreamble(t, raw, filtered) ==
  LET hit == {i \in DOMAIN raw : raw[i].id \in filtered}
  IN IF hit = {} THEN <<>>
     ELSE Strip(SubSeq(t, 1, Find(raw[Min(hit)].text, t) - 1))

split_hk_english(t0) ==
  LET t == hk_strip_headers(t0)
      c == IdxFrom(t, {"art", "artDel"}, 1)
      raw == HkRaw(t, c, 1)
      seen == DedupLongest(raw, <<>>)
      filtered == {k \in DOMAIN seen : CharLen(seen[k].text) >= MIN_CONTENT_LEN_HK}
      preamble == HkPreamble(t, raw, filtered)
  IN IF c = <<>> THEN split_english("hk", t)
     ELSE (IF preamble # <<>> THEN <<Article(PreambleId, preamble, FALSE)>> ELSE <<>>)
          \o EmitAll(IdOrder(raw, filtered, <<>>), seen)

\* -------------------------------------------------- segment: New Zealand
\* re.finditer(r'\nPart\s+1\n'): bare "Part 1" lines that have a line before
\* and a line after; a match consumes the newline that follows it, so the line
\* right after a match cannot start another one
RECURSIVE NzPart1(_, _)
NzPart1(t, i) ==
  IF i >= Len(t) THEN <<>>
  ELSE IF i > 1 /\ t[i] = Line("part", 1, t[i].n) THEN <<i>> \o NzPart1(t, i + 2)
       ELSE NzPart1(t, i + 1)

\* text = text[part1_matches[1].start():] (or [0]): the slice starts at the
\* newline before the "Part 1" line, i.e. with an empty line
nz_body_region(t) ==
  LET p == NzPart1(t, 1)
  IN IF Len(p) >= 2 THEN <<Blank>> \o SubSeq(t, p[2], Len(t))
     ELSE IF Len(p) = 1 THEN <<Blank>> \o SubSeq(t, p[1], Len(t))
     ELSE t

\* the page header block "\nNN\nVersion as at\n... Act ..." is deleted with its
\* leading newline
nz_strip_headers(t) ==
  IF t = <<>> THEN t ELSE <<Head(t)>> \o DropLines(Tail(t), {"noise"})

NextNonBlank(t, i) ==
  LET later == {j \in (i + 1)..Len(t) : t[j].k # "blank"}
  IN IF later = {} THEN 0 ELSE Min(later)

\* the header pattern (\d+[A-Z]?)\s+([A-Z][a-zA-Z\s,]+...[^\n]*)(?=\n): the
\* title class contains \s, so a match runs over the end of a header of plain
\* words into the next non-empty line and takes that whole line when a newline
\* follows it; a header on the last line of the text has no newline after it
\* and does not match
RECURSIVE NzCandidates(_, _)
NzCandidates(t, i) ==
  IF i > Len(t) THEN <<>>
  ELSE IF t[i].k \in {"art", "artDel"} /\ i < Len(t)
       THEN LET j == NextNonBlank(t, i)
                e == IF j # 0 /\ j < Len(t) THEN j ELSE i
            IN <<i>> \o NzCandidates(t, e + 1)
       ELSE NzCandidates(t, i + 1)

RECURSIVE NzRaw(_, _, _)
NzRaw(t, c, i) ==
  IF i > Len(c) THEN <<>>
  ELSE <<Article(t[c[i]].id, Chunk(t, c, i), FALSE)>> \o NzRaw(t, c, i + 1)

\* sorted(filtered.keys(), key=numeral)
RECURSIVE SortedIds(_)
SortedIds(S) == IF S = {} THEN <<>> ELSE <<Min(S)>> \o SortedIds(S \ {Min(S)})

split_nz_english(t0) ==
  LET t == nz_strip_headers(nz_body_region(t0))
      c == NzCandidates(t, 1)
      raw == NzRaw(t, c, 1)
      seen == DedupLongest(raw, <<>>)
      filtered == {k \in DOMAIN seen : CharLen(seen[k].text) >= MIN_CONTENT_LEN_NZ}
      preamble == PreambleBefore(t, c)
  IN IF c = <<>> THEN PreambleOnly(t)
     ELSE (IF preamble # <<>> /\ CharLen(preamble) > PREAMBLE_MIN_NZ
           THEN <<Article(PreambleId, preamble, FALSE)>> ELSE <<>>)
          \o EmitAll(SortedIds(filtered), seen)

\* parsers.split_articles: the dispatch on the detected language and format
split_articles(v, t) ==
  CASE v = "taiwan" -> split_chinese(t)
    [] v = "korea" -> split_korean(t)
    [] v = "nz" -> split_nz_english(t)
    [] v = "hk" -> split_hk_english(t)
    [] v = "us" -> split_us_english(t)
    [] OTHER -> split_english("epc", t)

\* ------------------------------------------ what a segmenter works on
\* the text the article pattern is applied to, after the variant's cleaning
Cleaned(v, t0) ==
  CASE v = "us" -> clean_us_westlaw_metadata(t0)
    [] v = "hk" -> hk_strip_headers(t0)
    [] v = "nz" -> nz_strip_headers(nz_body_region(t0))
    [] v = "epc" -> IF HasKind(t0, {"noise"}) THEN clean_epc_annotations(t0) ELSE t0
    [] OTHER -> t0

\* Hong Kong text without a Hong Kong header goes to _split_english
HkFallsBack(v, t0) == v = "hk" /\ IdxFrom(Cleaned(v, t0), {"art", "artDel"}, 1) = <<>>

\* candidates / matches: the lines where the segmenter that runs finds a header
Candidates(v, t0) ==
  LET t == Cleaned(v, t0)
  IN CASE v = "nz" -> NzCandidates(t, 1)
       [] v = "epc" \/ HkFallsBack(v, t0) -> IdxFrom(t, EnglishMarkers(v), 1)
       [] OTHER -> IdxFrom(t, {"art", "artDel"}, 1)

\* raw_articles of the segmenter that runs (for Korea and Taiwan, which keep
\* no such list, the entries appended to articles)
RawArticles(v, t0) ==
  LET t == Cleaned(v, t0)
      c == Candidates(v, t0)
  IN CASE v = "korea" -> KoreanFrom(t, c, 1)
       [] v = "taiwan" -> ChineseFrom(t, c, 1)
       [] v = "us" -> UsRaw(t, c, 1)
       [] v = "nz" -> NzRaw(t, c, 1)
       [] v = "hk" /\ ~HkFallsBack(v, t0) -> HkRaw(t, c, 1)
       [] OTHER -> EnglishRaw(v, t, c, 1)

\* MIN_CONTENT_LEN of the segmenter that runs (none in Korea and Taiwan)
MinContentLen(v, t0) ==
  CASE v = "us" -> MIN_CONTENT_LEN_US
    [] v = "nz" -> MIN_CONTENT_LEN_NZ
    [] v = "hk" /\ ~HkFallsBack(v, t0) -> MIN_CONTENT_LEN_HK
    [] v = "epc" \/ HkFallsBack(v, t0) -> MIN_CONTENT_LEN_EPC
    [] OTHER -> 0

\* ------------------------------------------------------------- inputs
\* all texts of at most MaxLines lines over an alphabet of lines
\* (a page header or metadata line follows a page of text: it is never the
\* first line of a document)
TextsOfLength(alphabet, n) ==
  {t \in [1..n -> alphabet] : t = <<>> \/ t[1].k # "noise"}

TextsOver(alphabet) == UNION {TextsOfLength(alphabet, n) : n \in 0..MaxLines}

SegmentLines(v) ==
  {Line("art", i, HeadLen) : i \in 1..NumIds}
  \cup {Line("art", LONG_ID, HeadLen + 5)}
  \cup {Line("artDel", 1, HeadLen + 10), Line("txt", 0, ShortLen), Line("txt", 0, LongLen),
        Line("ref", 1, LongLen), Line("del", 0, 10), Line("noise", 0, 30),
        Line("part", 1, 6), Blank}
  \cup (IF v = "hk" THEN {Line("artE", 1, HeadLen)} ELSE {})

\* ------------------------------------------------------------ segmenter
InitSegment ==
  /\ variant \in Variants
  /\ text \in TextsOver(SegmentLines(variant))
  /\ pc = "start"
  /\ articles = <<>>
  /\ hierarchy = <<>>
  /\ rows = <<>>
  /\ probe = NotFound
  /\ found = <<>>
  /\ body = <<>>
  /\ units = <<>>
  /\ path = NoPath
  /\ parser = NoParser
  /\ applied = NoComponents
  /\ history = <<>>
  /\ ai = AiOff
  /\ records = <<>>
  /\ call = NoCall
  /\ job = NoJob
  /\ jp = NoJapan

\* articles = split_articles(text, lang=lang, file_path=file_path)
Segment ==
  /\ pc = "start"
  /\ articles' = split_articles(variant, text)
  /\ pc' = "segmented"
  /\ UNCHANGED <<variant, text, hierarchy, rows, probe, found, body, units, path, parser, applied, history, ai, records, call, job, jp>>

NextSegment == Segment

SpecSegment == InitSegment /\ [][NextSegment]_vars

\* ------------------------------------------------- segmenter: properties
Segmented == pc = "segmented"

\* the Articles of the output, the synthetic preamble left out
OutArticles == SelectSeq(articles, LAMBDA a : a.id # PreambleId)

IdsOf(s) == [j \in DOMAIN s |-> s[j].id]

\* the segmenters that deduplicate by id
DedupVariants == {"epc", "us", "hk", "nz"}

\* the candidate of id i with the longest body, the earliest of them on a tie
Best(raw, i) ==
  CHOOSE j \in DOMAIN raw :
    /\ raw[j].id = i
    /\ \A k \in DOMAIN raw : raw[k].id = i =>
         \/ CharLen(raw[k].text) < CharLen(raw[j].text)
         \/ CharLen(raw[k].text) = CharLen(raw[j].text) /\ j <= k

DuplicatedIds(raw) ==
  {raw[j].id : j \in {j \in DOMAIN raw : \E k \in DOMAIN raw : k # j /\ raw[k].id = raw[j].id}}

WithId(i) == {j \in DOMAIN articles : articles[j].id = i}

C2_UniqueIds ==
  Segmented =>
    \A i, j \in DOMAIN articles :
      i # j => <<articles[i].id, articles[i].deleted>> # <<articles[j].id, articles[j].deleted>>

\* the header lines of the selected grammar in the input text
OwnMarkers(v) == IF v = "epc" THEN {"art", "artDel", "artE"} ELSE {"art", "artDel"}

MarkerIds(t, kinds) == [j \in DOMAIN IdxFrom(t, kinds, 1) |-> t[IdxFrom(t, kinds, 1)[j]].id]

Distinct(ids) == \A i, j \in DOMAIN ids : i # j => ids[i] # ids[j]

\* a is obtained from b by leaving elements out
RECURSIVE IsSubsequence(_, _)
IsSubsequence(a, b) ==
  IF a = <<>> THEN TRUE
  ELSE IF b = <<>> THEN FALSE
  ELSE IF Head(a) = Head(b) THEN IsSubsequence(Tail(a), Tail(b))
  ELSE IsSubsequence(a, Tail(b))

Ascending(ids) == \A i, j \in DOMAIN ids : i < j => ids[i] < ids[j]

C4_DeletedRetained ==
  Segmented =>
    LET raw == RawArticles(variant, text)
    IN \A j \in DOMAIN raw :
         (raw[j].deleted /\ (variant \in DedupVariants => j = Best(raw, raw[j].id)))
           => \E k \in DOMAIN articles : articles[k] = Article(raw[j].id, Sentinel, TRUE)

\* a deleted candidate shorter than the minimum content length is returned
C4_Witness ==
  /\ Segmented
  /\ variant \in {"epc", "us"}
  /\ LET raw == RawArticles(variant, text)
     IN \E j \in DOMAIN raw :
          /\ raw[j].deleted
          /\ CharLen(raw[j].text) < MinContentLen(variant, text)
          /\ \E k \in DOMAIN articles : articles[k] = Article(raw[j].id, Sentinel, TRUE)

\* C5 as stated: a text with a non-whitespace character never yields an empty
\* list; when the length filter removes every candidate the text is returned
\* as one preamble unit.
C5_NeverEmpty ==
  (Segmented /\ \E i \in DOMAIN text : text[i].k # "blank") => articles # <<>>

Max(S) == CHOOSE i \in S : \A j \in S : j <= i

\* the lines from the first to the last non-empty one
Trimmed(t) ==
  LET nb == {i \in DOMAIN t : t[i].k # "blank"}
  IN IF nb = {} THEN <<>> ELSE SubSeq(t, Min(nb), Max(nb))

\* C6 as stated: a text without a marker of the selected grammar yields exactly
\* one unit, the preamble, whose text is the entire input.
C6_Original ==
  (Segmented /\ IdxFrom(text, OwnMarkers(variant), 1) = <<>>) =>
    articles = <<Article(PreambleId, text, FALSE)>>

\* C6 amended: a text without a marker (for Hong Kong: of its own grammar or
\* of the generic English one it falls back to) yields one preamble unit whose
\* text is the input after the cleaning of the variant, without the leading
\* and trailing whitespace; it yields the empty list when only whitespace
\* remains.
C6_PreambleOnly ==
  (Segmented /\ IdxFrom(text, {"art", "artDel", "artE"}, 1) = <<>>) =>
    LET t == Trimmed(Cleaned(variant, text))
    IN articles = IF t = <<>> THEN <<>> ELSE <<Article(PreambleId, t, FALSE)>>

\* a text without marker whose preamble unit is not the whole input
C6_Witness ==
  /\ Segmented
  /\ IdxFrom(text, {"art", "artDel", "artE"}, 1) = <<>>
  /\ Len(articles) = 1
  /\ articles[1].id = PreambleId
  /\ articles[1].text # text


\* a text in which every cross-reference is replaced by plain text of the
\* same length
RECURSIVE Plain(_)
Plain(s) ==
  IF s = <<>> THEN <<>>
  ELSE <<IF Head(s).k = "ref" THEN Line("txt", 0, Head(s).n) ELSE Head(s)>> \o Plain(Tail(s))

RECURSIVE PlainArticles(_)
PlainArticles(as) ==
  IF as = <<>> THEN <<>>
  ELSE <<[Head(as) EXCEPT !.text = Plain(@)]>> \o PlainArticles(Tail(as))

\* C14: an article marker in the middle of a line (a cross-reference) is
\* plain text to segment: no Article starts at it, every Article starts at
\* a line-anchored marker, and the Articles are those of the same text
\* without the cross-references, each with its cross-reference lines in
\* place (the body that contains one is not cut at it).
C14_LineAnchored ==
  Segmented =>
    /\ \A k \in DOMAIN articles :
         articles[k].id # PreambleId =>
           /\ articles[k].text # <<>>
           /\ articles[k].text[1].k \in {"art", "artDel", "artE", "sentinel"}
    /\ PlainArticles(articles) = split_articles(variant, Plain(text))

\* an Article whose body holds a cross-reference to its own number, after
\* the header and before more text
C14_Witness ==
  /\ Segmented
  /\ \E k \in DOMAIN articles :
       /\ articles[k].id # PreambleId
       /\ Len(articles[k].text) >= 3
       /\ articles[k].text[2].k = "ref"
       /\ articles[k].text[2].id = articles[k].id
       /\ articles[k].text[3].k = "txt"


\* the length a preamble must exceed (US, New Zealand; none elsewhere)
PreambleMin(v) ==
  CASE v = "us" -> PREAMBLE_MIN_US
    [] v = "nz" -> PREAMBLE_MIN_NZ
    [] OTHER -> 0

\* the header lines, in the text the segmenter works on, of the ids that are
\* in the output
SurvivorLines ==
  LET t == Cleaned(variant, text)
      c == Candidates(variant, text)
  IN {c[i] : i \in {i \in DOMAIN c : \E k \in DOMAIN OutArticles : OutArticles[k].id = t[c[i]].id}}

\* C15 as stated: when Articles survive, a preamble unit is longer than the
\* preamble threshold and its text is the text before the first surviving
\* Article (here: before the header of a surviving Article, whichever of its
\* candidates is taken).
C15_PreambleBeforeSurvivor ==
  (Segmented /\ OutArticles # <<>> /\ articles[1].id = PreambleId) =>
    /\ CharLen(articles[1].text) > PreambleMin(variant)
    /\ \E f \in SurvivorLines :
         articles[1].text = Strip(SubSeq(Cleaned(variant, text), 1, f - 1))


\* C18 as stated: in every variant a candidate whose number has six or more
\* digits is dropped: no Article of the output carries such an id.
C18_LongIdDropped ==
  Segmented => \A k \in DOMAIN articles : Digits(articles[k].id) < 6

\* ------------------------------------------------ hierarchy detection
\* character offset of line i in "\n".join(lines)
Offset(t, i) == IF i = 1 THEN 0 ELSE CharLen(SubSeq(t, 1, i - 1)) + 1

\* match.start() of a pattern that begins with (?:^|\n): the newline before
\* the line, or 0 on the first line
MatchStart(t, i) == IF i = 1 THEN 0 ELSE Offset(t, i) - 1

\* {"type", "title", "start_pos"}; a title is given by the lines it is read from
Marker(type, title, pos) == [type |-> type, title |-> title, start_pos |-> pos]

\* for match in pattern.finditer(text): hierarchy.append(...) with a pattern
\* that takes the heading and its title from one line
RECURSIVE LineMarkers(_, _, _, _)
LineMarkers(t, kind, type, i) ==
  IF i > Len(t) THEN <<>>
  ELSE (IF t[i].k = kind THEN <<Marker(type, <<t[i]>>, MatchStart(t, i))>> ELSE <<>>)
       \o LineMarkers(t, kind, type, i + 1)

\* hierarchy.sort(key=lambda x: x["start_pos"]): a stable sort
RECURSIVE InsertByPos(_, _)
InsertByPos(h, m) ==
  IF h = <<>> THEN <<m>>
  ELSE IF h[Len(h)].start_pos <= m.start_pos THEN Append(h, m)
  ELSE Append(InsertByPos(SubSeq(h, 1, Len(h) - 1), m), h[Len(h)])

\* the variant that leaves the markers in the order they were collected
SortByPosNot(h) == h

RECURSIVE SortByPos(_)
SortByPos(h) ==
  IF h = <<>> THEN <<>>
  ELSE InsertByPos(SortByPos(SubSeq(h, 1, Len(h) - 1)), h[Len(h)])

\* part, chapter and section headings are collected in that order, then sorted
ThreeLevels(t) ==
  SortByPos(LineMarkers(t, "part", "part", 1)
            \o LineMarkers(t, "chap", "chapter", 1)
            \o LineMarkers(t, "sect", "section", 1))

detect_hierarchy_korean(t) == ThreeLevels(t)

detect_hierarchy_chinese(t) == ThreeLevels(t)

detect_hierarchy_english(t) == ThreeLevels(t)

\* seen = {}; for h in hierarchy: seen[key(h)] = h -- the entry of a key is
\* the last marker with that key; keys keep the order of first insertion
RECURSIVE LastByKey(_, _, _, _)
LastByKey(h, keys, order, seen) ==
  IF h = <<>> THEN [j \in DOMAIN order |-> seen[order[j]]]
  ELSE LET k == Head(keys)
       IN LastByKey(Tail(h), Tail(keys),
                    IF k \in DOMAIN seen THEN order ELSE Append(order, k),
                    (k :> Head(h)) @@ seen)

TitlesOf(h) == [j \in DOMAIN h |-> h[j].title]

\* Part and Chapter headings; markers with the same title are deduplicated
detect_hierarchy_us(t) ==
  LET h == LineMarkers(t, "part", "part", 1) \o LineMarkers(t, "chap", "chapter", 1)
  IN SortByPos(LastByKey(h, TitlesOf(h), <<>>, <<>>))

\* "Part N" on a line of its own followed by a non-empty title line; a match
\* consumes the title line; title lines that start with a digit, "Cap.",
\* "Section" or "Page" are skipped.  The scan starts at line 1 for a pattern
\* that begins with (?:^|\n) and at line 2 for one that begins with \n
RECURSIVE TwoLineParts(_, _, _)
TwoLineParts(t, i, reject) ==
  IF i >= Len(t) THEN <<>>
  ELSE IF t[i].k = "part" /\ t[i + 1].k # "blank"
       THEN (IF t[i + 1].k \in reject THEN <<>>
             ELSE <<Marker("part", <<t[i], t[i + 1]>>, MatchStart(t, i))>>)
            \o TwoLineParts(t, i + 2, reject)
       ELSE TwoLineParts(t, i + 1, reject)

\* the key of a Hong Kong marker: "Part N", or "<current part>>Division N"
RECURSIVE HkKeys(_, _)
HkKeys(h, current_part_key) ==
  IF h = <<>> THEN <<>>
  ELSE IF Head(h).type = "part"
       THEN <<[part |-> Head(h).title[1].id, division |-> 0]>>
            \o HkKeys(Tail(h), Head(h).title[1].id)
       ELSE <<[part |-> current_part_key, division |-> Head(h).title[1].id]>>
            \o HkKeys(Tail(h), current_part_key)

detect_hierarchy_hk(t) ==
  LET h == SortByPos(TwoLineParts(t, 1, {"art", "artDel", "sect"})
                     \o LineMarkers(t, "chap", "chapter", 1))
  IN SortByPos(LastByKey(h, HkKeys(h, 0), <<>>, <<>>))

\* the New Zealand patterns begin with \n: no heading on the first line
detect_hierarchy_nz(t) ==
  LET h == SortByPos(TwoLineParts(t, 2, {"art", "artDel", "noise"})
                     \o LineMarkers(t, "chap", "chapter", 2))
  IN SortByPos(LastByKey(h, TitlesOf(h), <<>>, <<>>))

\* parsers._detect_hierarchy: the dispatch on language and format
detect_hierarchy(v, t) ==
  CASE v = "taiwan" -> detect_hierarchy_chinese(t)
    [] v = "korea" -> detect_hierarchy_korean(t)
    [] v = "us" -> detect_hierarchy_us(t)
    [] v = "nz" -> detect_hierarchy_nz(t)
    [] v = "hk" -> detect_hierarchy_hk(t)
    [] OTHER -> detect_hierarchy_english(t)

\* ---------------------------------------------- position of an article
\* the number of lines of b that the first n characters of b reach into
RECURSIVE PrefixLines(_, _, _)
PrefixLines(b, n, k) ==
  IF k >= Len(b) \/ CharLen(SubSeq(b, 1, k)) >= n THEN k ELSE PrefixLines(b, n, k + 1)

\* line m begins with the first p characters of line l: lines of one kind and
\* number differ only in how far their filling runs
StartsWith(m, l, p) ==
  \/ p = 0
  \/ m = l
  \/ m.k = l.k /\ m.id = l.id /\ p < l.n /\ p < m.n

\* text.find(article_text[:n]), as a line index (0: not found)
PrefixFind(b, t, n) ==
  LET k == PrefixLines(b, n, 1)
      p == n - (IF k = 1 THEN 0 ELSE CharLen(SubSeq(b, 1, k - 1)) + 1)
      hits == {i \in 1..(Len(t) - k + 1) :
                 /\ SubSeq(t, i, i + k - 2) = SubSeq(b, 1, k - 1)
                 /\ StartsWith(t[i + k - 1], b[k], p)}
  IN IF hits = {} THEN 0 ELSE Min(hits)

\* the lines in which re.search(re.escape(article_id) + ...) finds the id of a:
\* "Article N" followed by whitespace (headers and cross-references), "제N조"
\* followed by "(", "第N條"; the id of a deleted article carries the suffix
\* " (삭제)" and occurs nowhere
IdPatternLines(v, t, a, english) ==
  IF a.deleted THEN {}
  ELSE IF english
  THEN {i \in DOMAIN t : t[i].id = a.id /\
          t[i].k \in (IF v = "epc" THEN {"art", "artDel", "artE", "ref"} ELSE {"artE", "ref"})}
  ELSE IF v = "korea" THEN {i \in DOMAIN t : t[i].id = a.id /\ t[i].k = "art"}
  ELSE IF v = "taiwan" THEN {i \in DOMAIN t : t[i].id = a.id /\ t[i].k \in {"art", "artDel"}}
  ELSE {}

\* a cross-reference line reads "See Article N ...": the id starts at column 4
IdColumn(l) == IF l.k = "ref" THEN 4 ELSE 0

\* the lines the line-anchored US / Hong Kong header pattern of the id matches
HeaderLines(v, t, a, english) ==
  IF a.deleted \/ english \/ v \notin {"us", "hk"} THEN {}
  ELSE {i \in DOMAIN t : t[i].id = a.id /\ t[i].k \in {"art", "artDel"}}

\* article_pos: text.find(article_text), else the first match of the id
\* pattern, else the last header of the id (US, Hong Kong), else the first 100
\* characters of the article
ArticlePos(v, t, a) ==
  LET english == v = "epc" \/ HkFallsBack(v, t)
      full == Find(a.text, t)
      ids == IdPatternLines(v, t, a, english)
      hdr == HeaderLines(v, t, a, english)
      pre == IF CharLen(a.text) > PREFIX_LEN THEN PrefixFind(a.text, t, PREFIX_LEN) ELSE 0
  IN IF full # 0 THEN Offset(t, full)
     ELSE IF ids # {} THEN Offset(t, Min(ids)) + IdColumn(t[Min(ids)])
     ELSE IF hdr # {} THEN MatchStart(t, Max(hdr))
     ELSE IF pre # 0 THEN Offset(t, pre)
     ELSE NotFound

\* ------------------------------------------------------------ the join
NoLabels == [part |-> <<>>, chapter |-> <<>>, section |-> <<>>]

\* variant of JoinStep that keeps the lower levels when a higher one starts
JoinStepNoReset(cur, h) ==
  IF h.type = "part" THEN [cur EXCEPT !.part = h.title]
  ELSE IF h.type = "chapter" THEN [cur EXCEPT !.chapter = h.title]
  ELSE IF h.type = "section" THEN [cur EXCEPT !.section = h.title]
  ELSE cur

\* the body of "for h in hierarchy", after the position test
JoinStep(cur, h) ==
  IF h.type = "part" THEN [part |-> h.title, chapter |-> <<>>, section |-> <<>>]
  ELSE IF h.type = "chapter" THEN [cur EXCEPT !.chapter = h.title, !.section = <<>>]
  ELSE IF h.type = "section" THEN [cur EXCEPT !.section = h.title]
  ELSE cur

\* for h in hierarchy: if h["start_pos"] > article_pos: break; ...
RECURSIVE ScanHierarchy(_, _, _)
ScanHierarchy(h, pos, cur) ==
  IF h = <<>> \/ Head(h).start_pos > pos THEN cur
  ELSE ScanHierarchy(Tail(h), pos, JoinStep(cur, Head(h)))

\* html_parser: the two-level form of the same scan
HtmlStep(cur, h) ==
  IF h.type = "part" THEN [part |-> h.title, chapter |-> <<>>]
  ELSE IF h.type = "chapter" THEN [cur EXCEPT !.chapter = h.title]
  ELSE cur

RECURSIVE HtmlScan(_, _, _)
HtmlScan(h, position, cur) ==
  IF h = <<>> \/ Head(h).start_pos > position THEN cur
  ELSE HtmlScan(Tail(h), position, HtmlStep(cur, Head(h)))

find_hierarchy_at_position(h, position) ==
  HtmlScan(h, position, [part |-> <<>>, chapter |-> <<>>])

\* the columns 편, 장, 절, 조문번호 of the rows of one article (all rows of an
\* article carry the same values in them); the preamble has empty labels
RowOf(v, t, h, a) ==
  LET l == IF a.id = PreambleId THEN NoLabels
           ELSE ScanHierarchy(h, ArticlePos(v, t, a), NoLabels)
  IN [part |-> l.part, chapter |-> l.chapter, section |-> l.section,
      id |-> a.id, deleted |-> a.deleted]

\* ------------------------------------------------ paragraph decomposition
\* The lines of an article body: a marker line of a given form and number
\* followed by its own text -- "(1) ..." (num), "(a) ..." (let), "(A) ..."
\* (cap), "(i) ..." (rom), Korean "① ..." (circ), "1. ..." (dot), "가. ..."
\* (han), "1) ..." (paren) -- or a plain line (txt, means, cue, blank).
\* text[match.end():] of a marker line is the line without its marker.
Content(l) ==
  [l EXCEPT !.k = CASE l.k = "num" -> "numText" [] l.k = "let" -> "letText"
                    [] l.k = "cap" -> "capText" [] l.k = "rom" -> "romText"
                    [] l.k = "circ" -> "circText" [] l.k = "dot" -> "dotText"
                    [] l.k = "han" -> "hanText" [] l.k = "paren" -> "parenText"
                    [] OTHER -> l.k]

\* list(pattern.finditer(span)): the marker lines of one form in a span
Marks(span, form) == IdxFrom(span, {form}, 1)

\* span[match.end():next.start()].strip() of marker i
Piece(span, c, i) ==
  Strip(<<Content(span[c[i]])>>
        \o SubSeq(span, c[i] + 1, IF i < Len(c) THEN c[i + 1] - 1 ELSE Len(span)))

\* span[:first.start()].strip()
Lead(span, c) == Strip(SubSeq(span, 1, c[1] - 1))

\* variant of Unit that does not carry the paragraph label into the units of
\* the levels below
UnitWithoutParent(p, i, s, ss, txt) ==
  [paragraph |-> IF i = 0 THEN p ELSE 0, item |-> i, subitem |-> s, subsubitem |-> ss,
   text |-> txt]

\* {"paragraph", "item", "subitem", "subsubitem", "text"}; 0 is the empty label
Unit(p, i, s, ss, txt) ==
  [paragraph |-> p, item |-> i, subitem |-> s, subsubitem |-> ss, text |-> txt]

LeadUnit(p, i, s, lead) == IF lead = <<>> THEN <<>> ELSE <<Unit(p, i, s, 0, lead)>>

\* the innermost loop: one unit per marker, nothing for the text before the
\* first marker
RECURSIVE Innermost(_, _, _, _, _, _, _)
Innermost(span, c, k, p, i, s, level) ==
  IF k > Len(c) THEN <<>>
  ELSE <<IF level = 3 THEN Unit(p, i, span[c[k]].id, 0, Piece(span, c, k))
         ELSE Unit(p, i, s, span[c[k]].id, Piece(span, c, k))>>
       \o Innermost(span, c, k + 1, p, i, s, level)

MEANS_MIN == 3

\* _is_definition_paragraph: "means" three times, or the phrase "unless the
\* context otherwise requires"
\* len(re.findall(r'\bmeans\b', para_text)): a "means" line carries the
\* number of its occurrences of the word
RECURSIVE MeansCount(_)
MeansCount(s) ==
  IF s = <<>> THEN 0
  ELSE (IF Head(s).k = "means" THEN Head(s).id ELSE 0) + MeansCount(Tail(s))

is_definition_paragraph(para_text) ==
  \/ MeansCount(para_text) >= MEANS_MIN
  \/ HasKind(para_text, {"cue"})

\* EPC / generic: the items (a), (b).. of a paragraph and their subitems (i)..
RECURSIVE EnglishItems(_, _, _, _)
EnglishItems(para_text, items, j, p) ==
  IF j > Len(items) THEN <<>>
  ELSE LET item_text == Piece(para_text, items, j)
           subitems == Marks(item_text, "rom")
           id == para_text[items[j]].id
       IN (IF subitems = <<>> THEN <<Unit(p, id, 0, 0, item_text)>>
           ELSE Innermost(item_text, subitems, 1, p, id, 0, 3))
          \o EnglishItems(para_text, items, j + 1, p)

RECURSIVE EnglishParagraphs(_, _, _)
EnglishParagraphs(text0, paragraphs, i) ==
  IF i > Len(paragraphs) THEN <<>>
  ELSE LET para_text == Piece(text0, paragraphs, i)
           items == Marks(para_text, "let")
           p == text0[paragraphs[i]].id
       IN (IF is_definition_paragraph(para_text) \/ items = <<>>
           THEN <<Unit(p, 0, 0, 0, para_text)>>
           ELSE LeadUnit(p, 0, 0, Lead(para_text, items))
                \o EnglishItems(para_text, items, 1, p))
          \o EnglishParagraphs(text0, paragraphs, i + 1)

parse_paragraphs_english(text0) ==
  LET paragraphs == Marks(text0, "num")
  IN IF paragraphs = <<>> THEN <<>> ELSE EnglishParagraphs(text0, paragraphs, 1)

\* US: (a) paragraph, (1) item, (A) subitem, (i) subsubitem
RECURSIVE UsSubitems(_, _, _, _, _)
UsSubitems(item_text, subitems, k, p, i) ==
  IF k > Len(subitems) THEN <<>>
  ELSE LET subitem_text == Piece(item_text, subitems, k)
           subsubitems == Marks(subitem_text, "rom")
           id == item_text[subitems[k]].id
       IN (IF subsubitems = <<>> THEN <<Unit(p, i, id, 0, subitem_text)>>
           ELSE Innermost(subitem_text, subsubitems, 1, p, i, id, 4))
          \o UsSubitems(item_text, subitems, k + 1, p, i)

RECURSIVE UsItems(_, _, _, _)
UsItems(para_text, items, j, p) ==
  IF j > Len(items) THEN <<>>
  ELSE LET item_text == Piece(para_text, items, j)
           subitems == Marks(item_text, "cap")
           id == para_text[items[j]].id
       IN (IF subitems = <<>> THEN <<Unit(p, id, 0, 0, item_text)>>
           ELSE UsSubitems(item_text, subitems, 1, p, id))
          \o UsItems(para_text, items, j + 1, p)

RECURSIVE UsParagraphs(_, _, _)
UsParagraphs(text0, paragraphs, i) ==
  IF i > Len(paragraphs) THEN <<>>
  ELSE LET para_text == Piece(text0, paragraphs, i)
           items == Marks(para_text, "num")
           p == text0[paragraphs[i]].id
       IN (IF items = <<>> THEN <<Unit(p, 0, 0, 0, para_text)>>
           ELSE LeadUnit(p, 0, 0, Lead(para_text, items))
                \o UsItems(para_text, items, 1, p))
          \o UsParagraphs(text0, paragraphs, i + 1)

parse_paragraphs_us(text0) ==
  LET paragraphs == Marks(text0, "let")
  IN IF paragraphs = <<>> THEN <<>>
     ELSE LeadUnit(0, 0, 0, Lead(text0, paragraphs)) \o UsParagraphs(text0, paragraphs, 1)

\* Korea: ① paragraph, 1. item, 가. subitem, 1) subsubitem; no lead text at
\* any level
RECURSIVE KoreanSubitems(_, _, _, _, _)
KoreanSubitems(item_text, subitems, k, p, i) ==
  IF k > Len(subitems) THEN <<>>
  ELSE LET subitem_text == Piece(item_text, subitems, k)
           subsubitems == Marks(subitem_text, "paren")
           id == item_text[subitems[k]].id
       IN (IF subsubitems = <<>> THEN <<Unit(p, i, id, 0, subitem_text)>>
           ELSE Innermost(subitem_text, subsubitems, 1, p, i, id, 4))
          \o KoreanSubitems(item_text, subitems, k + 1, p, i)

RECURSIVE KoreanItems(_, _, _, _)
KoreanItems(para_text, items, j, p) ==
  IF j > Len(items) THEN <<>>
  ELSE LET item_text == Piece(para_text, items, j)
           subitems == Marks(item_text, "han")
           id == para_text[items[j]].id
       IN (IF subitems = <<>> THEN <<Unit(p, id, 0, 0, item_text)>>
           ELSE KoreanSubitems(item_text, subitems, 1, p, id))
          \o KoreanItems(para_text, items, j + 1, p)

\* for para_info in paragraphs_to_process
KoreanParagraph(p, para_text) ==
  LET items == Marks(para_text, "dot")
  IN IF items = <<>> THEN <<Unit(p, 0, 0, 0, para_text)>>
     ELSE KoreanItems(para_text, items, 1, p)

RECURSIVE KoreanParagraphs(_, _, _)
KoreanParagraphs(text0, paragraphs, i) ==
  IF i > Len(paragraphs) THEN <<>>
  ELSE KoreanParagraph(text0[paragraphs[i]].id, Piece(text0, paragraphs, i))
       \o KoreanParagraphs(text0, paragraphs, i + 1)

\* without a paragraph marker the whole text is one paragraph with no number
parse_paragraphs_korean(text0) ==
  LET paragraphs == Marks(text0, "circ")
  IN IF paragraphs = <<>> THEN KoreanParagraph(0, text0)
     ELSE KoreanParagraphs(text0, paragraphs, 1)

\* parsers._parse_paragraphs_and_items: the dispatch on language and format
parse_paragraphs_and_items(v, text0) ==
  CASE v = "us" -> parse_paragraphs_us(text0)
    [] v = "taiwan" -> <<>>
    [] v = "korea" -> parse_paragraphs_korean(text0)
    [] OTHER -> parse_paragraphs_english(text0)

\* the variant without the row for an article the decomposer returns nothing for
UnitsOfNoFallback(v, text0) == parse_paragraphs_and_items(v, text0)

\* paragraphs = _parse_paragraphs_and_items(...); if not paragraphs: one row
\* with the whole text, else one row per unit (columns 항, 호, 목, 세목, 원문)
UnitsOf(v, text0) ==
  LET paragraphs == parse_paragraphs_and_items(v, text0)
  IN IF paragraphs = <<>> THEN <<Unit(0, 0, 0, 0, text0)>> ELSE paragraphs

\* the forms that mark the levels of a variant, outermost first
LevelForms(v) ==
  CASE v = "us" -> <<"let", "num", "cap", "rom">>
    [] v = "korea" -> <<"circ", "dot", "han", "paren">>
    [] v = "taiwan" -> <<>>
    [] OTHER -> <<"num", "let", "rom">>

\* ------------------------------------------------- titles and cleaning
\* A title is empty or one line.  The title a header carries -- "(목적)" after
\* a Korean number, the words after "§ 1." or "1." -- is a line of its own kind
\* with the number of its article.
HeaderTitle(a) == <<Line("title", a.id, 0)>>

\* US, Hong Kong and New Zealand segmenters put the header's title in the
\* article ("title" in article and article["title"]); the generic splitter
\* the Hong Kong segmenter falls back to does not
HasSegmenterTitle(v, t, a) == v \in {"us", "nz"} \/ (v = "hk" /\ ~HkFallsBack(v, t))

\* _extract_article_title, English branch: the second line of the article,
\* nothing when it is empty, starts with "(" or is shorter than TITLE_MIN; a
\* line longer than TITLE_MAX is cut and "..." appended.  The Chinese branch
\* reads a parenthesized title after the number, which a header "第N條 ..."
\* does not have.
extract_article_title(article_text, v) ==
  IF v = "taiwan" \/ Len(article_text) < 2 THEN <<>>
  ELSE LET l == article_text[2]
       IN IF l.k \in {"blank", "num", "let", "cap", "rom", "sentinel", "del"} \/ l.n < TITLE_MIN
          THEN <<>>
          ELSE IF l.n > TITLE_MAX THEN <<[l EXCEPT !.k = "cut", !.n = TITLE_MAX + 3]>>
          ELSE <<l>>

\* the answers of the language model _extract_title_with_gemini deals with
AiResponses == {"title", "blocked", "empty", "too_long", "article_ref", "no_title",
                "exception"}

\* the keys a caller passes: none, the placeholder, a key
AiKeys == {"", "your-key-here", "key"}

\* a title the language model answers with
AiTitle == <<Line("aiTitle", 0, 5)>>

\* _extract_title_with_gemini: "" without a key or with the placeholder, for a
\* blocked or empty response, a title over 100 characters, one that holds an
\* article number, a "no title" answer and any exception; else the answer
extract_title_with_gemini(a) ==
  IF a.key \in {"", "your-key-here"} THEN <<>>
  ELSE IF a.response = "title" THEN AiTitle
  ELSE <<>>

\* the title of an article in extract_structured_articles: from
\* _clean_korean_article for Korean, else the segmenter's title, else the
\* language model's answer when use_ai_titles and a key are given, else the
\* heuristic extractor
ResolveTitle(v, t, a, a_i) ==
  IF v = "korea" THEN (IF a.deleted THEN Sentinel ELSE HeaderTitle(a))
  ELSE IF HasSegmenterTitle(v, t, a) THEN HeaderTitle(a)
  ELSE IF a_i.use_ai_titles /\ a_i.key # "" THEN extract_title_with_gemini(a_i)
  ELSE extract_article_title(a.text, v)

\* _clean_korean_article: a deleted article is the sentinel; else the text
\* after "제N조(제목)", here the rest of the header line and the lines below
clean_korean_article(a) ==
  IF a.deleted THEN Sentinel
  ELSE LET clean_text == Strip(<<[a.text[1] EXCEPT !.k = "artText"]>> \o Tail(a.text))
       IN IF clean_text = <<>> THEN a.text ELSE clean_text

\* the lines _clean_english_article drops: the first line when it holds the
\* article id, one of the first HEADER_LINES lines that is the title, an
\* empty line, one of the first HEADER_LINES lines of at most CLEAN_MIN_LINE
\* characters
Dropped(article_text, title, i) ==
  LET l == article_text[i]
  IN \/ i = 1 /\ l.k \in {"art", "artDel", "artE"}
     \/ i <= HEADER_LINES /\ title # <<>> /\ <<l>> = title
     \/ l.k = "blank"
     \/ i <= HEADER_LINES /\ l.n <= CLEAN_MIN_LINE

RECURSIVE CleanLines(_, _, _)
CleanLines(article_text, title, i) ==
  IF i > Len(article_text) THEN <<>>
  ELSE (IF Dropped(article_text, title, i) THEN <<>> ELSE <<article_text[i]>>)
       \o CleanLines(article_text, title, i + 1)

\* the variant that drops short lines at every index
CleanShortEverywhere(article_text, title) ==
  SelectSeq(article_text, LAMBDA l : l.n > CLEAN_MIN_LINE)

\* _clean_english_article: the kept lines, or the text as it was when nothing
\* or less than CLEAN_MIN_TEXT characters stay
clean_english_article(article_text, title) ==
  LET clean_text == CleanLines(article_text, title, 1)
  IN IF clean_text = <<>> \/ CharLen(clean_text) < CLEAN_MIN_TEXT THEN article_text
     ELSE clean_text

\* the text the decomposer gets: Korean and English are cleaned, Chinese not
CleanArticle(v, a, title) ==
  CASE v = "korea" -> clean_korean_article(a)
    [] v = "taiwan" -> a.text
    [] OTHER -> clean_english_article(a.text, title)

\* _parse_preamble: nothing for less than PREAMBLE_PARSE_MIN characters; else
\* one recital from each keyword (CONSIDERING, RECALLING, ...) to the next, its
\* "paragraph" the keyword
RECURSIVE Recitals(_, _, _)
Recitals(preamble_text, c, k) ==
  IF k > Len(c) THEN <<>>
  ELSE <<[paragraph |-> <<Line("keyword", preamble_text[c[k]].id, 0)>>,
          text |-> Strip(SubSeq(preamble_text, c[k],
                                IF k < Len(c) THEN c[k + 1] - 1 ELSE Len(preamble_text)))]>>
       \o Recitals(preamble_text, c, k + 1)

parse_preamble(preamble_text) ==
  IF CharLen(Strip(preamble_text)) < PREAMBLE_PARSE_MIN THEN <<>>
  ELSE Recitals(preamble_text, Marks(preamble_text, "recital"), 1)

\* one row of the DataFrame: 편, 장, 절, 조문번호, 조문제목, 항, 호, 목, 세목, 원문
Record(l, id, title, u) ==
  [part |-> l.part, chapter |-> l.chapter, section |-> l.section, id |-> id,
   title |-> title, paragraph |-> u.paragraph, item |-> u.item,
   subitem |-> u.subitem, subsubitem |-> u.subsubitem, text |-> u.text]

\* the rows of the preamble: one per recital under the recital's keyword, or
\* one with the whole preamble
PreambleRecords(a) ==
  LET preamble_paras == parse_preamble(a.text)
  IN IF preamble_paras # <<>>
     THEN [i \in DOMAIN preamble_paras |->
             Record(NoLabels, PreambleId, preamble_paras[i].paragraph,
                    Unit(0, 0, 0, 0, preamble_paras[i].text))]
     ELSE <<Record(NoLabels, PreambleId, <<>>, Unit(0, 0, 0, 0, a.text))>>

\* the rows one pass of the loop appends for an article
RecordsOf(v, t, h, a, a_i) ==
  IF a.id = PreambleId THEN PreambleRecords(a)
  ELSE LET l == ScanHierarchy(h, ArticlePos(v, t, a), NoLabels)
           title == ResolveTitle(v, t, a, a_i)
           paragraphs == UnitsOf(v, CleanArticle(v, a, title))
       IN [i \in DOMAIN paragraphs |-> Record(l, a.id, title, paragraphs[i])]

\* ------------------------------------------- extract_structured_articles
\* the lines of a document: headers of NumIds articles, a body line, headings
\* of two parts, a chapter and a section, a cross-reference, a deleted
\* article, a page header, a paragraph marker of the variant's outermost
\* level, recitals under NumIds keywords.  A heading carries its title on its own line where
\* the variant's pattern reads it there, and is a bare "Part N" line where the
\* pattern reads the title from the next line
HeadingLen(v) == IF v \in {"hk", "nz"} THEN 6 ELSE 20

DocumentLines(v) ==
  {Line("art", i, HeadLen) : i \in 1..NumIds}
  \cup {Line("txt", 0, LongLen), Line("part", 1, HeadingLen(v)), Line("part", 2, HeadingLen(v)),
        Line("chap", 1, 20), Blank}
  \cup (IF v \in {"korea", "epc", "us"} THEN {Line("artDel", 1, HeadLen + 10)} ELSE {})
  \cup (IF v \in {"korea", "taiwan", "epc"} THEN {Line("sect", 1, 20)} ELSE {})
  \cup (IF v \in {"epc", "us", "hk", "nz"} THEN {Line("noise", 0, 30)} ELSE {})
  \cup (IF v = "epc" THEN {Line("ref", 1, LongLen)} ELSE {})
  \cup (IF LevelForms(v) = <<>> THEN {} ELSE {Line(LevelForms(v)[1], 1, ShortLen)})
  \cup (IF v = "epc" THEN {Line("recital", i, ShortLen) : i \in 1..NumIds} ELSE {})

Init ==
  /\ variant \in Variants
  /\ \E n \in 0..MaxLines : text \in TextsOfLength(DocumentLines(variant), n)
  /\ pc = "start"
  /\ articles = <<>>
  /\ hierarchy = <<>>
  /\ rows = <<>>
  /\ probe = NotFound
  /\ found = <<>>
  /\ body = <<>>
  /\ units = <<>>
  /\ path = NoPath
  /\ parser = NoParser
  /\ applied = NoComponents
  /\ history = <<>>
  /\ ai = AiOff
  /\ records = <<>>
  /\ call = NoCall
  /\ job = NoJob
  /\ jp = NoJapan

\* hierarchy = _detect_hierarchy(text, lang, file_path=file_path)
DetectHierarchy ==
  /\ pc = "start"
  /\ hierarchy' = detect_hierarchy(variant, text)
  /\ pc' = "detected"
  /\ UNCHANGED <<variant, text, articles, rows, probe, found, body, units, path, parser, applied, history, ai, records, call, job, jp>>

\* articles = split_articles(text, lang=lang, file_path=file_path)
SplitArticles ==
  /\ pc = "detected"
  /\ articles' = split_articles(variant, text)
  /\ pc' = "split"
  /\ UNCHANGED <<variant, text, hierarchy, rows, probe, found, body, units, path, parser, applied, history, ai, records, call, job, jp>>

\* for article in articles: ... rows.append(...)
BuildRows ==
  /\ pc = "split"
  /\ rows' = [k \in DOMAIN articles |-> RowOf(variant, text, hierarchy, articles[k])]
  /\ records' = [k \in DOMAIN articles |->
                   RecordsOf(variant, text, hierarchy, articles[k], ai)]
  /\ pc' = "done"
  /\ UNCHANGED <<variant, text, articles, hierarchy, probe, found, body, units, path, parser, applied, history, ai, call, job, jp>>

\* html_parser: article_pos = text.find(match.group(0));
\* current_hierarchy = _find_hierarchy_at_position(hierarchy, article_pos),
\* for the header of an article and a position-sorted marker list
FindHierarchyAtPosition ==
  /\ pc = "detected"
  /\ \E i \in DOMAIN text :
       /\ text[i].k \in {"art", "artDel"}
       /\ probe' = Offset(text, Find(<<text[i]>>, text))
  /\ found' = find_hierarchy_at_position(hierarchy, probe')
  /\ pc' = "looked_up"
  /\ UNCHANGED <<variant, text, articles, hierarchy, rows, body, units, path, parser, applied, history, ai, records, call, job, jp>>

Next == DetectHierarchy \/ SplitArticles \/ BuildRows \/ FindHierarchyAtPosition

Spec == Init /\ [][Next]_vars

\* ----------------------------------------------------- join: properties
Built == pc = "done"

\* the markers with position <= P
Upto(h, P) == {i \in DOMAIN h : h[i].start_pos <= P}

\* the last marker of a type among the indices S (0: none)
LastOfType(h, type, S) ==
  LET c == {i \in S : h[i].type = type}
  IN IF c = {} THEN 0 ELSE Max(c)

TitleAt(h, i) == IF i = 0 THEN <<>> ELSE h[i].title

\* the markers a scan up to P leaves attached: the last Part, the last Chapter
\* after it, the last Section after both
AttachedPart(h, P) == LastOfType(h, "part", Upto(h, P))

AttachedChapter(h, P) ==
  LastOfType(h, "chapter", {i \in Upto(h, P) : i > AttachedPart(h, P)})

AttachedSection(h, P) ==
  LastOfType(h, "section",
             {i \in Upto(h, P) : i > AttachedPart(h, P) /\ i > AttachedChapter(h, P)})

\* C7: the Part, Chapter and Section written for an Article at position P are
\* the titles of the last Part marker with position <= P, of the last Chapter
\* marker after that Part and of the last Section marker after both (empty
\* where there is none), in the marker list sorted by position; the two-level
\* lookup of the HTML parser returns the same Part and Chapter.  So an attached
\* Chapter or Section never lies before the attached Part.
C7_JoinScan ==
  /\ Built =>
       \A k \in DOMAIN rows :
         articles[k].id # PreambleId =>
           LET P == ArticlePos(variant, text, articles[k])
           IN /\ rows[k].part = TitleAt(hierarchy, AttachedPart(hierarchy, P))
              /\ rows[k].chapter = TitleAt(hierarchy, AttachedChapter(hierarchy, P))
              /\ rows[k].section = TitleAt(hierarchy, AttachedSection(hierarchy, P))
  /\ pc = "looked_up" =>
       /\ found.part = TitleAt(hierarchy, AttachedPart(hierarchy, probe))
       /\ found.chapter = TitleAt(hierarchy, AttachedChapter(hierarchy, probe))

\* an Article placed after a Chapter and a later Part: the Part is attached
\* and the Chapter before it is not
C7_Witness ==
  /\ Built
  /\ \E k \in DOMAIN rows :
       /\ articles[k].id # PreambleId
       /\ rows[k].part # <<>>
       /\ rows[k].chapter = <<>>
       /\ LET P == ArticlePos(variant, text, articles[k])
          IN \E i \in Upto(hierarchy, P) :
               hierarchy[i].type = "chapter" /\ i < AttachedPart(hierarchy, P)

\* C8 as stated: over the Articles of a document in order, the index of the
\* attached Part in the position-sorted marker list (0 when no Part is
\* attached) never decreases, and an Article of a later Part carries no
\* Chapter that precedes its Part.
C8_PartNeverDecreases ==
  Built =>
    \A j, k \in DOMAIN rows :
      (j < k /\ articles[j].id # PreambleId /\ articles[k].id # PreambleId) =>
        LET Pj == ArticlePos(variant, text, articles[j])
            Pk == ArticlePos(variant, text, articles[k])
        IN /\ AttachedPart(hierarchy, Pj) <= AttachedPart(hierarchy, Pk)
           /\ AttachedPart(hierarchy, Pj) < AttachedPart(hierarchy, Pk) =>
                \/ rows[k].chapter = <<>>
                \/ AttachedChapter(hierarchy, Pk) > AttachedPart(hierarchy, Pk)

\* ------------------------------------------------ hierarchy: properties
\* marker m stands at an occurrence of its title: the line, or the two lines,
\* it was read from
AtItsTitle(t, m) ==
  \E i \in DOMAIN t :
    /\ m.start_pos = MatchStart(t, i)
    /\ i + Len(m.title) - 1 <= Len(t)
    /\ SubSeq(t, i, i + Len(m.title) - 1) = m.title

BodyStarts(v, t, a) ==
  LET c == Candidates(v, t)
      raw == RawArticles(v, t)
      hdr == {i \in DOMAIN t : t[i].id = a.id /\ t[i].k \in {"art", "artDel", "artE"}}
  IN IF Cleaned(v, t) = t /\ Len(raw) = Len(c)
     THEN {i \in hdr : \E j \in DOMAIN c : c[j] = i /\ (raw[j] = a \/ Emit(raw[j]) = a)}
     ELSE hdr

\* C21: the position extract_structured_articles uses to attach hierarchy
\* labels to an Article is the start offset, in the source text, of the
\* Article's surviving body, never that of an earlier entry or
\* cross-reference with the same id, also when the body was altered by
\* hierarchy-line stripping or annotation cleaning.
C21_PositionOfBody ==
  pc = "done" =>
    \A k \in DOMAIN articles :
      articles[k].id # PreambleId =>
        \E i \in BodyStarts(variant, text, articles[k]) :
          ArticlePos(variant, text, articles[k]) = Offset(text, i)

\* ---------------------------------------------------- records: titles
\* the lines of a document whose titles are resolved: headers of NumIds
\* articles, a body line, an empty line, a marker of the outermost level
TitleLines(v) ==
  {Line("art", i, HeadLen) : i \in 1..NumIds}
  \cup {Line("txt", 0, LongLen), Blank}
  \cup (IF LevelForms(v) = <<>> THEN {} ELSE {Line(LevelForms(v)[1], 1, ShortLen)})

\* extract_structured_articles(file_path, use_ai_titles, gemini_api_key) with
\* a language model that answers every request of the run in one way
InitTitles ==
  /\ variant \in Variants
  /\ text \in TextsOver(TitleLines(variant))
  /\ ai \in [use_ai_titles : BOOLEAN, key : AiKeys, response : AiResponses]
  /\ pc = "start"
  /\ articles = <<>>
  /\ hierarchy = <<>>
  /\ rows = <<>>
  /\ probe = NotFound
  /\ found = <<>>
  /\ body = <<>>
  /\ units = <<>>
  /\ path = NoPath
  /\ parser = NoParser
  /\ applied = NoComponents
  /\ history = <<>>
  /\ records = <<>>
  /\ call = NoCall
  /\ job = NoJob
  /\ jp = NoJapan

SpecTitles == InitTitles /\ [][Next]_vars

\* the articles whose title the language model is asked for
AskedArticles ==
  {k \in DOMAIN articles :
     /\ articles[k].id # PreambleId
     /\ variant # "korea"
     /\ ~HasSegmenterTitle(variant, text, articles[k])}

\* C16: when AI title resolution is enabled and the resolver yields no title
\* for an article (empty answer, blocked response, answer rejected by
\* validation, or an exception), the title of the article's records is the one
\* the heuristic title extractor computes.
C16_FallbackToHeuristic ==
  (pc = "done" /\ ai.use_ai_titles /\ ai.key = "key" /\ ai.response # "title")
    => \A k \in AskedArticles : \A i \in DOMAIN records[k] :
         records[k][i].title = extract_article_title(articles[k].text, variant)

\* ------------------------------------------------- records: properties
\* an article body without sub-structure: no marker of the variant's levels
NoSubstructure(v, article_text) ==
  \A i \in DOMAIN article_text : \A j \in DOMAIN LevelForms(v) :
    article_text[i].k # LevelForms(v)[j]

\* the records of entry k agree on Part, Chapter, Section and ArticleId, which
\* are those of the entry
SameArticle(k) ==
  \A i \in DOMAIN records[k] :
    /\ records[k][i].id = articles[k].id
    /\ records[k][i].part = rows[k].part
    /\ records[k][i].chapter = rows[k].chapter
    /\ records[k][i].section = rows[k].section

SameTitle(k) ==
  \A i, j \in DOMAIN records[k] : records[k][i].title = records[k][j].title

\* an entry without sub-structure has one record, without labels, with the
\* cleaned body as its text
OneRecord(k) ==
  LET a == articles[k]
  IN (a.id # PreambleId
      /\ NoSubstructure(variant, CleanArticle(variant, a, records[k][1].title)))
       => /\ Len(records[k]) = 1
          /\ records[k][1].paragraph = 0 /\ records[k][1].item = 0
          /\ records[k][1].subitem = 0 /\ records[k][1].subsubitem = 0
          /\ records[k][1].text = CleanArticle(variant, a, records[k][1].title)

EnglishCleaned == {k \in DOMAIN articles : articles[k].id # PreambleId /\ variant \notin {"korea", "taiwan"}}

CleanedBody(k) == clean_english_article(articles[k].text, records[k][1].title)

\* the lines of s at the indices K, in their order
RECURSIVE AtIndices(_, _, _)
AtIndices(s, K, i) ==
  IF i > Len(s) THEN <<>>
  ELSE (IF i \in K THEN <<s[i]>> ELSE <<>>) \o AtIndices(s, K, i + 1)

\* line i of the body of entry k is one of the first three lines and repeats
\* the article id (a header) or the title
RepeatsIdOrTitle(k, i) ==
  /\ i <= HEADER_LINES
  /\ \/ articles[k].text[i].k \in {"art", "artDel", "artE"}
     \/ <<articles[k].text[i]>> = records[k][1].title

\* the cleaned body is the body at a set of indices that holds all of must
KeepsAll(k, must) ==
  \E K \in SUBSET DOMAIN articles[k].text :
    must \subseteq K /\ CleanedBody(k) = AtIndices(articles[k].text, K, 1)

BodyLines(v) ==
  {Line(LevelForms(v)[1], i, ShortLen) : i \in 1..(IF LevelForms(v) = <<>> THEN 0 ELSE NumIds)}
  \cup {Line(LevelForms(v)[j], 1, ShortLen) : j \in 2..Len(LevelForms(v))}
  \cup {Line("txt", 0, ShortLen), Blank}
  \cup (IF v \in {"epc", "us"}
        THEN {Line("means", 1, ShortLen), Line("means", MEANS_MIN, ShortLen)} ELSE {})
  \cup (IF v = "epc" THEN {Line("cue", 0, ShortLen)} ELSE {})

\* article bodies reach the decomposer stripped and non-empty
InitDecompose ==
  /\ variant \in Variants
  /\ body \in {b \in TextsOver(BodyLines(variant)) : b # <<>> /\ Strip(b) = b}
  /\ pc = "body"
  /\ text = <<>>
  /\ articles = <<>>
  /\ hierarchy = <<>>
  /\ rows = <<>>
  /\ probe = NotFound
  /\ found = <<>>
  /\ units = <<>>
  /\ path = NoPath
  /\ parser = NoParser
  /\ applied = NoComponents
  /\ history = <<>>
  /\ ai = AiOff
  /\ records = <<>>
  /\ call = NoCall
  /\ job = NoJob
  /\ jp = NoJapan

Decompose ==
  /\ pc = "body"
  /\ units' = UnitsOf(variant, body)
  /\ pc' = "decomposed"
  /\ UNCHANGED <<variant, text, articles, hierarchy, rows, probe, found, body, path, parser, applied, history, ai, records, call, job, jp>>

NextDecompose == Decompose

SpecDecompose == InitDecompose /\ [][NextDecompose]_vars

\* ------------------------------------------- decomposition: properties
Decomposed == pc = "decomposed"

\* the non-empty lines of a text, each without its marker
RECURSIVE Words(_)
Words(s) ==
  IF s = <<>> THEN <<>>
  ELSE (IF Head(s).k = "blank" THEN <<>> ELSE <<Content(Head(s))>>) \o Words(Tail(s))

RECURSIVE ConcatTexts(_)
ConcatTexts(us) == IF us = <<>> THEN <<>> ELSE Head(us).text \o ConcatTexts(Tail(us))

\* C9 as stated: the texts of the units of a body, concatenated in output
\* order, reproduce the body up to whitespace (and up to the markers, which
\* the units carry as labels): nothing is lost or duplicated.
C9_Complete == Decomposed => Words(ConcatTexts(units)) = Words(body)

\* the lead units the rule asks for: at each level whose markers occur in the
\* span, the non-empty text before the first marker, under the labels of the
\* enclosing units; a definition paragraph is not decomposed
RECURSIVE ExpectedLeads(_, _, _, _)
ExpectedLeads(v, span, labels, level) ==
  IF level > Len(LevelForms(v)) THEN {}
  ELSE IF level = 2 /\ v \notin {"us", "korea"} /\ is_definition_paragraph(span) THEN {}
  ELSE LET c == Marks(span, LevelForms(v)[level])
       IN IF c = <<>> THEN {}
          ELSE (IF Lead(span, c) = <<>> THEN {}
                ELSE {[labels |-> labels, text |-> Lead(span, c)]})
               \cup UNION {ExpectedLeads(v, Piece(span, c, i),
                                         [labels EXCEPT ![level] = span[c[i]].id], level + 1)
                           : i \in DOMAIN c}

\* C10 as stated: at every level and in every variant, non-empty text before
\* the first marker of the level inside the current span is a unit of its own,
\* with the labels of the enclosing units and an empty label at that level and
\* below.
C10_LeadEmitted ==
  Decomposed =>
    \A e \in ExpectedLeads(variant, body, <<0, 0, 0, 0>>, 1) :
      \E k \in DOMAIN units :
        /\ units[k].text = e.text
        /\ <<units[k].paragraph, units[k].item, units[k].subitem, units[k].subsubitem>> = e.labels

\* the paragraphs of a body: the spans of the markers of the outermost level
ParagraphMarks(v, b) == IF LevelForms(v) = <<>> THEN <<>> ELSE Marks(b, LevelForms(v)[1])

\* C11 as stated: in every variant that decomposes paragraphs, a paragraph
\* with three or more occurrences of "means" is one unit with its full text
\* and empty item, subitem and subsubitem labels, and no other unit carries a
\* part of it.
C11_DefinitionIntact ==
  Decomposed =>
    LET c == ParagraphMarks(variant, body)
    IN \A i \in DOMAIN c :
         MeansCount(Piece(body, c, i)) >= MEANS_MIN =>
           /\ \E k \in DOMAIN units : units[k] = Unit(body[c[i]].id, 0, 0, 0, Piece(body, c, i))
           /\ Len(units) <= Len(c) + 1
                 \/ \E j \in DOMAIN c : j # i /\ MeansCount(Piece(body, c, j)) < MEANS_MIN


\* the nesting the statement gives: US (a) -> (1) -> (A) -> (i), EPC / generic
\* (1) -> (a) -> (i)
NestingForms(v) ==
  IF v = "us" THEN <<"let", "num", "cap", "rom">> ELSE <<"num", "let", "rom">>

\* the innermost spans of a body under that nesting, each with the labels of
\* the markers that enclose it: a span without marker of the next level, and
\* an EPC definition paragraph
RECURSIVE Leaves(_, _, _, _)
Leaves(v, span, labels, level) ==
  LET c == IF level > Len(NestingForms(v)) THEN <<>> ELSE Marks(span, NestingForms(v)[level])
  IN IF c = <<>> \/ (level = 2 /\ v # "us" /\ is_definition_paragraph(span))
     THEN {[labels |-> labels, text |-> span]}
     ELSE UNION {Leaves(v, Piece(span, c, i), [labels EXCEPT ![level] = span[c[i]].id], level + 1)
                 : i \in DOMAIN c}

\* the text of a span before its first marker of the next level, where there
\* is one, under the labels of the span
RECURSIVE LeadsOf(_, _, _, _)
LeadsOf(v, span, labels, level) ==
  LET c == IF level > Len(NestingForms(v)) THEN <<>> ELSE Marks(span, NestingForms(v)[level])
  IN IF c = <<>> \/ (level = 2 /\ v # "us" /\ is_definition_paragraph(span)) THEN {}
     ELSE {[labels |-> labels, text |-> Lead(span, c)]}
          \cup UNION {LeadsOf(v, Piece(span, c, i), [labels EXCEPT ![level] = span[c[i]].id], level + 1)
                      : i \in DOMAIN c}

LabelsOf(u) == <<u.paragraph, u.item, u.subitem, u.subsubitem>>

\* C17: the US decomposer nests (a) -> (1) -> (A) -> (i) and the EPC / generic
\* one (1) -> (a) -> (i): every innermost span of that nesting is a unit that
\* carries the labels of all its enclosing markers, and every unit is such a
\* span or the lead text of an enclosing span, under the labels of that span.
C17_Nesting ==
  (Decomposed /\ variant \in {"us", "epc", "hk", "nz"}) =>
    LET leaves == Leaves(variant, body, <<0, 0, 0, 0>>, 1)
        leads == LeadsOf(variant, body, <<0, 0, 0, 0>>, 1)
    IN /\ \A l \in leaves :
            \E k \in DOMAIN units : LabelsOf(units[k]) = l.labels /\ units[k].text = l.text
       /\ \A k \in DOMAIN units :
            [labels |-> LabelsOf(units[k]), text |-> units[k].text] \in leaves \cup leads

\* a US body (a) (1) (A) (i) and its unit with all four labels; an EPC body
\* (1) (a) (i) is decomposed likewise in the states of the other variants
C17_Witness ==
  /\ Decomposed
  /\ variant = "us"
  /\ \E k \in DOMAIN units :
       /\ units[k].paragraph # 0 /\ units[k].item # 0
       /\ units[k].subitem # 0 /\ units[k].subsubitem # 0
       /\ units[k].text[1].k = "romText"

\* the claim as stated, for every decomposer
C22_Original ==
  Decomposed =>
    \A k \in DOMAIN units :
      /\ units[k].subsubitem # 0 => units[k].subitem # 0
      /\ units[k].subitem # 0 => units[k].item # 0
      /\ units[k].item # 0 => units[k].paragraph # 0

\* C22: in every unit a decomposer produces, a non-empty subsubitem implies a
\* non-empty subitem and a non-empty subitem a non-empty item; a non-empty
\* item implies a non-empty paragraph, except in the Korean decomposer for a
\* body without paragraph marker, which is taken as one unlabeled paragraph.
C22_ParentLabels ==
  Decomposed =>
    \A k \in DOMAIN units :
      /\ units[k].subsubitem # 0 => units[k].subitem # 0
      /\ units[k].subitem # 0 => units[k].item # 0
      /\ (units[k].item # 0 /\ units[k].paragraph = 0) =>
           variant = "korea" /\ Marks(body, "circ") = <<>>

\* a Korean body "1. ... 가. ..." without paragraph marker has a unit with item
\* and subitem under the empty paragraph
C22_Witness ==
  /\ Decomposed /\ variant = "korea"
  /\ \E k \in DOMAIN units :
       units[k].paragraph = 0 /\ units[k].item # 0 /\ units[k].subitem # 0

\* ------------------------------------------------------ variant selection
\* the keywords the registry and the public API look for in the lower-cased
\* path, and the extensions a path can have (".txt": any other)
Keywords ==
  {"korea", "taiwan", "hongkong", "newzealand", "usa", "germany", "deutschland",
   "epc", "european"}

Extensions == {".pdf", ".rtf", ".xml", ".txt"}

Paths == [kw : SUBSET Keywords, cjk : BOOLEAN, ext : Extensions]

\* register(...) calls in their order; a class is named by its COUNTRY_CODE
RegistryEpcFirst ==
  <<"epc", "korea", "taiwan", "hongkong", "newzealand", "usa", "germany">>

REGISTRY ==
  <<"korea", "taiwan", "hongkong", "newzealand", "usa", "germany", "epc">>

SUPPORTED_EXTENSIONS(cls) ==
  CASE cls = "usa" -> {".rtf"}
    [] cls = "germany" -> {".xml"}
    [] OTHER -> {".pdf"}

PATH_KEYWORDS(cls) ==
  CASE cls = "germany" -> {"germany", "deutschland"}
    [] cls = "epc" -> {"epc", "european"}
    [] OTHER -> {cls}

\* BaseParser.matches, and TaiwanParser.matches with its file-name test
matches(cls, p) ==
  /\ p.ext \in SUPPORTED_EXTENSIONS(cls)
  /\ PATH_KEYWORDS(cls) \cap p.kw # {}
  /\ cls = "taiwan" => p.cjk

\* for cls in _REGISTRY: if cls.matches(file_path): return cls()
RECURSIVE FirstMatch(_, _, _)
FirstMatch(reg, p, i) ==
  IF i > Len(reg) THEN "epc"
  ELSE IF matches(reg[i], p) THEN reg[i]
  ELSE FirstMatch(reg, p, i + 1)

get_parser(p) == FirstMatch(REGISTRY, p, 1)

detect_lang(p) ==
  IF "korea" \in p.kw THEN "korean"
  ELSE IF "taiwan" \in p.kw /\ p.cjk THEN "chinese"
  ELSE "english"

detect_format(p) ==
  IF "newzealand" \in p.kw THEN "nz"
  ELSE IF "hongkong" \in p.kw THEN "hk"
  ELSE IF "usa" \in p.kw THEN "us"
  ELSE "standard"

\* split_articles: the segmenter it calls
SegmenterOf(lang, fmt) ==
  CASE lang = "chinese" -> "_split_chinese"
    [] lang = "korean" -> "_split_korean"
    [] lang = "english" /\ fmt = "nz" -> "_split_nz_english"
    [] lang = "english" /\ fmt = "hk" -> "_split_hk_english"
    [] lang = "english" /\ fmt = "us" -> "_split_us_english"
    [] OTHER -> "_split_english"

\* _detect_hierarchy: the detector it calls
HierarchyOf(lang, fmt) ==
  CASE lang = "chinese" -> "_detect_hierarchy_chinese"
    [] lang = "korean" -> "_detect_hierarchy_korean"
    [] lang = "english" /\ fmt = "us" -> "_detect_hierarchy_us"
    [] lang = "english" /\ fmt = "nz" -> "_detect_hierarchy_nz"
    [] lang = "english" /\ fmt = "hk" -> "_detect_hierarchy_hk"
    [] OTHER -> "_detect_hierarchy_english"

\* the cleaning step of the loop over the articles
CleanerOf(lang) ==
  CASE lang = "korean" -> "_clean_korean_article"
    [] lang = "english" -> "_clean_english_article"
    [] OTHER -> "none"

\* _parse_paragraphs_and_items: the format is tested before the language
DecomposerOf(lang, fmt) ==
  CASE fmt = "us" -> "_parse_paragraphs_us"
    [] fmt # "us" /\ lang = "chinese" -> "none"
    [] fmt # "us" /\ lang = "korean" -> "_parse_paragraphs_korean"
    [] OTHER -> "_parse_paragraphs_english"

\* the four components extract_structured_articles applies to a path
ComponentsFor(p) ==
  LET lang == detect_lang(p)
      fmt == detect_format(p)
  IN [segmenter |-> SegmenterOf(lang, fmt), hierarchy |-> HierarchyOf(lang, fmt),
      cleaner |-> CleanerOf(lang), decomposer |-> DecomposerOf(lang, fmt)]

\* the methods split_articles, detect_hierarchy, clean_article and
\* parse_paragraphs of each parser class
ClassComponents(cls) ==
  CASE cls = "korea" ->
         [segmenter |-> "_split_korean", hierarchy |-> "_detect_hierarchy_korean",
          cleaner |-> "_clean_korean_article", decomposer |-> "_parse_paragraphs_korean"]
    [] cls = "taiwan" ->
         [segmenter |-> "_split_chinese", hierarchy |-> "_detect_hierarchy_chinese",
          cleaner |-> "none", decomposer |-> "none"]
    [] cls = "hongkong" ->
         [segmenter |-> "_split_hk_english", hierarchy |-> "_detect_hierarchy_hk",
          cleaner |-> "_clean_english_article", decomposer |-> "_parse_paragraphs_english"]
    [] cls = "newzealand" ->
         [segmenter |-> "_split_nz_english", hierarchy |-> "_detect_hierarchy_nz",
          cleaner |-> "_clean_english_article", decomposer |-> "_parse_paragraphs_english"]
    [] cls = "usa" ->
         [segmenter |-> "_split_us_english", hierarchy |-> "_detect_hierarchy_us",
          cleaner |-> "_clean_english_article", decomposer |-> "_parse_paragraphs_us"]
    [] cls = "germany" ->
         [segmenter |-> "none", hierarchy |-> "none", cleaner |-> "none", decomposer |-> "none"]
    [] OTHER ->
         [segmenter |-> "_split_english", hierarchy |-> "_detect_hierarchy_english",
          cleaner |-> "_clean_english_article", decomposer |-> "_parse_paragraphs_english"]

InitSelect ==
  /\ path \in Paths
  /\ pc = "path"
  /\ parser = NoParser
  /\ applied = NoComponents
  /\ history = <<>>
  /\ ai = AiOff
  /\ records = <<>>
  /\ call = NoCall
  /\ job = NoJob
  /\ jp = NoJapan
  /\ variant = "epc"
  /\ text = <<>>
  /\ articles = <<>>
  /\ hierarchy = <<>>
  /\ rows = <<>>
  /\ probe = NotFound
  /\ found = <<>>
  /\ body = <<>>
  /\ units = <<>>

\* get_parser(file_path)
GetParser ==
  /\ pc = "path"
  /\ parser' = get_parser(path)
  /\ pc' = "selected"
  /\ UNCHANGED <<variant, text, articles, hierarchy, rows, probe, found, body, units, path, applied, history, ai, records, call, job, jp>>

\* extract_structured_articles(file_path): the functions it dispatches to
ExtractStructuredArticles ==
  /\ pc = "path"
  /\ applied' = ComponentsFor(path)
  /\ pc' = "dispatched"
  /\ UNCHANGED <<variant, text, articles, hierarchy, rows, probe, found, body, units, path, parser, history, ai, records, call, job, jp>>

NextSelect == GetParser \/ ExtractStructuredArticles

SpecSelect == InitSelect /\ [][NextSelect]_vars

\* ------------------------------------------------- selection: properties
Dispatched == pc = "dispatched"

Selected == pc = "selected"

Classes == {REGISTRY[i] : i \in DOMAIN REGISTRY}

\* C12 as stated: for every path the segmenter, the hierarchy detector, the
\* cleaner and the decomposer applied to the document are those of one and
\* the same parser class.
C12_SameVariant ==
  Dispatched => \E cls \in Classes : applied = ClassComponents(cls)

\* C13 as stated: the first jurisdiction in the order Korea, Taiwan, Hong
\* Kong, New Zealand, USA, Germany, EPC whose keyword is in the path and whose
\* script condition holds, EPC when there is none.
C13_Original ==
  Selected =>
    parser = (IF "korea" \in path.kw THEN "korea"
              ELSE IF "taiwan" \in path.kw /\ path.cjk THEN "taiwan"
              ELSE IF "hongkong" \in path.kw THEN "hongkong"
              ELSE IF "newzealand" \in path.kw THEN "newzealand"
              ELSE IF "usa" \in path.kw THEN "usa"
              ELSE IF {"germany", "deutschland"} \cap path.kw # {} THEN "germany"
              ELSE "epc")

\* C13, amended: get_parser returns one class for every path: the first
\* jurisdiction in that order whose keyword is in the path, whose extension
\* is the one the class supports (.rtf for USA, .xml for Germany, .pdf for
\* the others) and whose script condition holds; EPC when there is none.
C13_SelectFirstMatch ==
  Selected =>
    /\ parser \in Classes
    /\ parser =
         (IF path.ext = ".pdf" /\ "korea" \in path.kw THEN "korea"
          ELSE IF path.ext = ".pdf" /\ "taiwan" \in path.kw /\ path.cjk THEN "taiwan"
          ELSE IF path.ext = ".pdf" /\ "hongkong" \in path.kw THEN "hongkong"
          ELSE IF path.ext = ".pdf" /\ "newzealand" \in path.kw THEN "newzealand"
          ELSE IF path.ext = ".rtf" /\ "usa" \in path.kw THEN "usa"
          ELSE IF path.ext = ".xml" /\ {"germany", "deutschland"} \cap path.kw # {} THEN "germany"
          ELSE "epc")

\* a path with the keywords of Hong Kong, USA and EPC and the extension .pdf:
\* Hong Kong is selected, before EPC, and USA does not match
C13_Witness ==
  /\ Selected
  /\ path.kw = {"hongkong", "usa", "epc"}
  /\ path.ext = ".pdf"
  /\ parser = "hongkong"

\* C24: the class registry and the function dispatch select the same grammar
\* for every path: the segmenter, hierarchy detector and decomposer of the
\* class get_parser returns are those _detect_lang and _detect_format choose
\* inside split_articles and extract_structured_articles.
C24_RegistryIsDispatch ==
  Selected =>
    LET of_class == ClassComponents(parser)
        of_path == ComponentsFor(path)
    IN /\ of_class.segmenter = of_path.segmenter
       /\ of_class.hierarchy = of_path.hierarchy
       /\ of_class.decomposer = of_path.decomposer

\* ------------------------------------------------- repeated invocations
\* history is the log of the invocations of split_articles made so far in
\* one process, in the order in which they returned: the document of each
\* and the list it returned.  Calls made by concurrent workers are logged in
\* the order of their returns.

\* variant of SegmentCall in which the result list is a module-level list that
\* every call appends to
SegmentCallShared(v, t, earlier) ==
  (IF earlier = <<>> THEN <<>> ELSE earlier[Len(earlier)].out) \o split_articles(v, t)

\* one invocation: every name a segmenter assigns (candidates, raw_articles,
\* seen, filtered, articles, the compiled patterns) is local to the call, and
\* the only module-level object of the package, _REGISTRY, is written by
\* register at import time and is not read by the segmenters: the result
\* depends on the arguments alone
SegmentCall(v, t, earlier) == split_articles(v, t)

\* another document, parsed between two invocations on the first one
OtherText == <<Line("art", 2, HeadLen), Line("txt", 0, LongLen), Line("artDel", 1, HeadLen + 10)>>

RepeatLines ==
  {Line("art", 1, HeadLen), Line("art", 2, HeadLen), Line("artDel", 1, HeadLen + 10),
   Line("txt", 0, LongLen), Blank}

InitRepeat ==
  /\ variant \in Variants
  /\ text \in TextsOver(RepeatLines)
  /\ pc = "calls"
  /\ history = <<>>
  /\ ai = AiOff
  /\ records = <<>>
  /\ call = NoCall
  /\ job = NoJob
  /\ jp = NoJapan
  /\ articles = <<>>
  /\ hierarchy = <<>>
  /\ rows = <<>>
  /\ probe = NotFound
  /\ found = <<>>
  /\ body = <<>>
  /\ units = <<>>
  /\ path = NoPath
  /\ parser = NoParser
  /\ applied = NoComponents

CallSegment(v, t) ==
  /\ pc = "calls"
  /\ Len(history) < MaxCalls
  /\ history' = Append(history, [variant |-> v, text |-> t, out |-> SegmentCall(v, t, history)])
  /\ UNCHANGED <<variant, text, pc, articles, hierarchy, rows, probe, found, body, units, path, parser, applied, ai, records, call, job, jp>>

\* split_articles on the document
SegmentDocument == CallSegment(variant, text)

\* split_articles on the other document, with the generic English grammar
SegmentOther == CallSegment("epc", OtherText)

NextRepeat == SegmentDocument \/ SegmentOther

SpecRepeat == InitRepeat /\ [][NextRepeat]_vars

ParsersIdle ==
  /\ variant = "epc" /\ text = <<>> /\ pc = "idle"
  /\ articles = <<>> /\ hierarchy = <<>> /\ rows = <<>>
  /\ probe = NotFound /\ found = <<>> /\ body = <<>> /\ units = <<>>
  /\ path = NoPath /\ parser = NoParser /\ applied = NoComponents
  /\ history = <<>> /\ ai = AiOff /\ records = <<>>

parserVars ==
  <<variant, text, pc, articles, hierarchy, rows, probe, found, body, units,
    path, parser, applied, history, ai, records>>

MAX_RETRIES == 3

\* wait = 3 * (attempt + 1)
WAIT_STEP == 3

\* the functions that call a translation API with retries
Services == {"translate_gemini", "translate_claude", "_call_gemini_with_retry"}

\* what one API attempt does: it gives a text, an empty text, a blocked
\* response (no candidates) or a candidate without content, or it raises: any
\* exception, ResourceExhausted, an exception whose message holds "429".
\* The Claude client has no blocked or empty response: message.content[0]
\* raises instead.
Failures == {"error", "ResourceExhausted", "429"}

AttemptOutcomes(service) ==
  {"text", "empty_text"} \cup Failures
  \cup (IF service = "translate_claude" THEN {} ELSE {"blocked", "no_content"})

\* the variant that waits the same time after every failure
WaitFlat(attempt) == WAIT_STEP

\* time.sleep(3 * (attempt + 1)) after the failure of attempt (from 0)
Wait(attempt) == WAIT_STEP * (attempt + 1)

\* The strings the functions return are written in English here:
\*   "[Gemini 응답 없음]" no response, "[Gemini 번역 실패]" translation failed,
\*   "[Gemini 오류: ...]" / "[Claude 오류: ...]" error, "[... API 키 미설정]" no
\*   API key, "[Gemini 오류: API 할당량 초과 ...]" quota.
\* what the retry loop returns for an attempt that does not raise
Answer(service, o) ==
  IF o \in {"blocked", "no_content"} THEN "[Gemini: no response]"
  ELSE IF o = "text" THEN "translation"
  ELSE IF service = "translate_gemini" THEN "[Gemini: translation failed]"
  ELSE ""

\* what it returns after the last failure
ErrorString(service, o) ==
  IF service = "translate_claude" THEN "[Claude error]"
  ELSE IF o \in {"ResourceExhausted", "429"}
       THEN "[Gemini error: quota]"
  ELSE "[Gemini error]"

\* without a key, or with the placeholder, no attempt is made
KeyMissing(service) ==
  CASE service = "translate_gemini" -> "[Gemini: no API key]"
    [] service = "translate_claude" -> "[Claude: no API key]"
    [] OTHER -> ""

InitRetry ==
  /\ call \in [service : Services, key : AiKeys, attempt : {0}, outcomes : {<<>>},
               waits : {<<>>}, result : {""}, returned : {FALSE}]
  /\ job = NoJob
  /\ jp = NoJapan
  /\ ParsersIdle

\* if not api_key or api_key == "your-key-here": return ...
ReturnWithoutKey ==
  /\ ~call.returned
  /\ call.key \in {"", "your-key-here"}
  /\ call' = [call EXCEPT !.result = KeyMissing(call.service), !.returned = TRUE]
  /\ UNCHANGED <<parserVars, job, jp>>

\* one pass of for attempt in range(MAX_RETRIES): the API is called; the
\* answer is returned, or the exception is caught and the loop sleeps and
\* goes on, or after the last attempt returns the error string
Attempt(o) ==
  /\ ~call.returned
  /\ call.key = "key"
  /\ call.attempt < MAX_RETRIES
  /\ call' =
       IF o \notin Failures
       THEN [call EXCEPT !.outcomes = Append(@, o),
                         !.result = Answer(call.service, o), !.returned = TRUE]
       ELSE IF call.attempt < MAX_RETRIES - 1
       THEN [call EXCEPT !.outcomes = Append(@, o),
                         !.waits = Append(@, Wait(call.attempt)),
                         !.attempt = @ + 1]
       ELSE [call EXCEPT !.outcomes = Append(@, o),
                         !.result = ErrorString(call.service, o), !.returned = TRUE]
  /\ UNCHANGED <<parserVars, job, jp>>

NextRetry ==
  \/ ReturnWithoutKey
  \/ \E o \in AttemptOutcomes(call.service) : Attempt(o)

\* an API attempt returns or raises: the requests carry a timeout
SpecRetry == InitRetry /\ [][NextRetry]_vars /\ WF_vars(NextRetry)

\* ------------------------------------------- translator: call properties
FailedAttempts == {k \in DOMAIN call.outcomes : call.outcomes[k] \in Failures}

ErrorStrings ==
  {ErrorString(s, o) : s \in Services, o \in Failures}

\* at most MAX_RETRIES attempts; every attempt but the last one made has
\* failed; the k-th failure that is retried was followed by a wait of 3k
\* seconds; after MAX_RETRIES failures the result is an error string
RetrySafe ==
  /\ Len(call.outcomes) <= MAX_RETRIES
  /\ \A k \in DOMAIN call.outcomes : k < Len(call.outcomes) => k \in FailedAttempts
  /\ \A k \in DOMAIN call.waits : call.waits[k] = 3 * k /\ k \in FailedAttempts
  /\ \A k \in FailedAttempts : k < MAX_RETRIES => k \in DOMAIN call.waits
  /\ call.returned =>
       /\ Len(call.waits) = Len(call.outcomes) - 1 \/ call.outcomes = <<>>
       /\ MAX_RETRIES \in FailedAttempts => call.result \in ErrorStrings
  /\ ~call.returned => FailedAttempts = DOMAIN call.outcomes /\ Len(call.outcomes) < MAX_RETRIES

\* C27: a Gemini or Claude translation call makes at most MAX_RETRIES (3) API
\* attempts, returns on the first attempt that succeeds, waits 3k seconds
\* after the k-th failed attempt before retrying, returns a bracketed error
\* string after the third failure, and always terminates with a result.
C27_BoundedRetry == [](call.service \in Services => RetrySafe) /\ <>call.returned

\* a call that failed twice, waited 3 and 6 seconds, failed a third time and
\* returned the error string
C27_Witness ==
  /\ call.service = "translate_claude"
  /\ call.returned
  /\ call.waits = <<3, 6>>
  /\ Len(call.outcomes) = MAX_RETRIES
  /\ call.result = "[Claude error]"

\* ------------------------------------------------ translator: articles
\* An article handed to the translator is a dict with "id", "text" and, when
\* it comes from a structured table, "조문번호".  An id or 조문번호 is a record
\*   [n |-> number (PreambleId: "전문"), del |-> it ends with "(삭제)",
\*    row |-> the 항 that follows the number ("전문-1"), 0 for none]
\* and a text is "body" or DELETED, the string "(삭제)".
DELETED == "(deleted)"

Key(n, del) == [n |-> n, del |-> del, row |-> 0]

\* the key "조문번호" is absent
NoNum == Key(NotFound, FALSE)

\* "(서문 — 번역 생략)", "(Gemini 미사용)", "(Claude 미사용)", "(번역 오류: ...)"
PREAMBLE_SKIPPED == "(preamble - not translated)"
GEMINI_UNUSED == "(Gemini not used)"
CLAUDE_UNUSED == "(Claude not used)"
WORKER_ERROR == "(translation error)"

\* article.get('조문번호', article['id'])
GroupKey(a) == IF a.num = NoNum THEN a.id ELSE a.num

\* article_num == "전문"
IsPreamble(k) == k.n = PreambleId /\ ~k.del /\ k.row = 0

\* article_num.endswith("(삭제)")
EndsWithDeleted(k) == k.del

\* groups = defaultdict(list): the keys in the order of their first
\* appearance, and the members of a key in the order of the input
RECURSIVE GroupKeys(_, _)
GroupKeys(arts, acc) ==
  IF arts = <<>> THEN acc
  ELSE GroupKeys(Tail(arts),
         IF \E j \in DOMAIN acc : acc[j] = GroupKey(Head(arts)) THEN acc
         ELSE Append(acc, GroupKey(Head(arts))))

RECURSIVE Members(_, _, _)
Members(arts, k, i) ==
  IF i > Len(arts) THEN <<>>
  ELSE (IF GroupKey(arts[i]) = k THEN <<i>> ELSE <<>>) \o Members(arts, k, i + 1)

\* {"id", "original", "gemini", "claude", "diff_summary"}
Result(id, original, gemini, claude, diff) ==
  [id |-> id, original |-> original, gemini |-> gemini, claude |-> claude,
   diff_summary |-> diff]

PreambleResult(a) == Result(a.id, <<a.text>>, PREAMBLE_SKIPPED, PREAMBLE_SKIPPED, "-")

DeletedResult(a) == Result(a.id, <<DELETED>>, DELETED, DELETED, "-")

\* an API request of a service with the texts of the articles m of the input
Request(service, m) == [service |-> service, articles |-> {m[j] : j \in DOMAIN m}]

\* the requests for one text: translate_gemini, translate_claude and, when
\* both are used, summarize_diff, which asks Gemini
Requests(m, use_gemini, use_claude) ==
  (IF use_gemini THEN {Request("gemini", m)} ELSE {})
  \cup (IF use_claude THEN {Request("claude", m)} ELSE {})
  \cup (IF use_gemini /\ use_claude THEN {Request("summarize_diff", m)} ELSE {})

\* the rows of a translated group: the first row carries the combined text
\* and the difference summary
TranslatedGroup(arts, m, use_gemini, use_claude) ==
  [i \in DOMAIN m |->
     Result(arts[m[i]].id,
            IF i = 1 THEN [j \in DOMAIN m |-> arts[m[j]].text] ELSE <<arts[m[i]].text>>,
            IF use_gemini THEN "translation" ELSE GEMINI_UNUSED,
            IF use_claude THEN "translation" ELSE CLAUDE_UNUSED,
            IF i = 1 /\ use_gemini /\ use_claude THEN "summary" ELSE "-")]

\* _translate_one(article_num, group): the rows of the group and the requests
\* made for it; a preamble group and a group whose number ends with "(삭제)"
\* are not translated
translate_one(arts, article_num, m, use_gemini, use_claude) ==
  IF IsPreamble(article_num)
  THEN [results |-> [i \in DOMAIN m |-> PreambleResult(arts[m[i]])], sent |-> {}]
  ELSE IF EndsWithDeleted(article_num)
  THEN [results |-> [i \in DOMAIN m |-> DeletedResult(arts[m[i]])], sent |-> {}]
  ELSE [results |-> TranslatedGroup(arts, m, use_gemini, use_claude),
        sent |-> Requests(m, use_gemini, use_claude)]

\* the rows main gives a group whose worker raised
ErrorResults(arts, m) ==
  [i \in DOMAIN m |-> Result(arts[m[i]].id, <<arts[m[i]].text>>, WORKER_ERROR, WORKER_ERROR, "-")]

RECURSIVE Extend(_)
Extend(ordered) == IF ordered = <<>> THEN <<>> ELSE Head(ordered) \o Extend(Tail(ordered))

\* ------------------------------------ translator: the group translation
\* ThreadPoolExecutor(max_workers=5)
POOL_SIZE == 5

Running(j) == {idx \in DOMAIN j.status : j.status[idx] = "running"}

\* the variant that stores a result in the order of completion
SlotByArrival(idx, done) == done + 1

\* ordered_results[idx] = future.result()
Slot(idx, done) == idx

\* the state of a job when _translate_by_article_group begins
PoolOf(j) ==
  LET keys == GroupKeys(j.articles, <<>>)
  IN [j EXCEPT !.phase = "pool",
               !.status = [idx \in DOMAIN keys |-> "queued"],
               !.ordered_results = [idx \in DOMAIN keys |-> <<>>]]

\* translate_batch with group_by_article and a first article that has a
\* 조문번호, and translate_batch_smart without a group to translate, call
\* _translate_by_article_group
GoesToGroups(j) ==
  \/ j.entry = "_translate_by_article_group"
  \/ /\ j.entry = "translate_batch" /\ j.group_by_article
     /\ j.articles # <<>> /\ j.articles[1].num # NoNum
  \/ /\ j.entry = "translate_batch_smart"
     /\ \A i \in DOMAIN j.articles :
          LET k == GroupKey(j.articles[i]) IN IsPreamble(k) \/ EndsWithDeleted(k)

\* groups are built and every group is submitted to the pool
SubmitGroups ==
  /\ job.phase = "called"
  /\ GoesToGroups(job)
  /\ job' = PoolOf(job)
  /\ UNCHANGED <<parserVars, call, jp>>

\* a free worker takes the next submitted group
StartWorker(idx) ==
  /\ job.phase = "pool"
  /\ job.status[idx] = "queued"
  /\ \A h \in 1..(idx - 1) : job.status[h] # "queued"
  /\ Cardinality(Running(job)) < POOL_SIZE
  /\ job' = [job EXCEPT !.status[idx] = "running"]
  /\ UNCHANGED <<parserVars, call, jp>>

\* the ways a worker ends: it returns the rows of its group, it raises
\* before it asks for a translation (a 조문번호 that is not a string has no
\* endswith), or it raises while it builds the rows (a row without "text")
WorkerEnds == {"returns", "raises at the number", "raises at the rows"}

\* _translate_one returns the rows of its group or raises
FinishWorker(idx, ends) ==
  /\ job.phase = "pool"
  /\ job.status[idx] = "running"
  /\ LET keys == GroupKeys(job.articles, <<>>)
         one == translate_one(job.articles, keys[idx], Members(job.articles, keys[idx], 1),
                              job.use_gemini, job.use_claude)
     IN job' = [job EXCEPT !.status[idx] = IF ends = "returns" THEN "done" ELSE "raised",
                           !.sent = IF ends = "raises at the number" THEN @
                                    ELSE @ \cup one.sent]
  /\ UNCHANGED <<parserVars, call, jp>>

\* one pass of for future in as_completed(future_to_idx): the result or the
\* error rows of a finished group are stored and the callback is called
CollectFuture(idx) ==
  /\ job.phase = "pool"
  /\ job.status[idx] \in {"done", "raised"}
  /\ \A c \in DOMAIN job.collected : job.collected[c] # idx
  /\ LET keys == GroupKeys(job.articles, <<>>)
         m == Members(job.articles, keys[idx], 1)
         one == translate_one(job.articles, keys[idx], m, job.use_gemini, job.use_claude)
         current == Len(job.collected) + 1
     IN job' = [job EXCEPT
                  !.ordered_results[Slot(idx, Len(job.collected))] =
                     IF job.status[idx] = "raised" THEN ErrorResults(job.articles, m)
                     ELSE one.results,
                  !.collected = Append(@, idx),
                  !.progress = Append(@, [current |-> current, total |-> Len(keys)])]
  /\ UNCHANGED <<parserVars, call, jp>>

\* results.extend(group_results) for every group; return results
ReturnGroups ==
  /\ job.phase = "pool"
  /\ Len(job.collected) = Len(job.status)
  /\ job' = [job EXCEPT !.results = Extend(job.ordered_results),
                        !.phase = "returned", !.returned = TRUE]
  /\ UNCHANGED <<parserVars, call, jp>>

NextGroup ==
  \/ SubmitGroups
  \/ \E idx \in DOMAIN job.status : StartWorker(idx)
  \/ \E idx \in DOMAIN job.status : \E ends \in WorkerEnds : FinishWorker(idx, ends)
  \/ \E idx \in DOMAIN job.status : CollectFuture(idx)
  \/ ReturnGroups

\* a job as it is called
Job(entry, arts, use_gemini, use_claude, group_by_article, batch_size) ==
  [entry |-> entry, articles |-> arts, use_gemini |-> use_gemini,
   use_claude |-> use_claude, group_by_article |-> group_by_article,
   batch_size |-> batch_size, phase |-> "called", status |-> <<>>,
   ordered_results |-> <<>>, collected |-> <<>>, progress |-> <<>>, i |-> 1,
   results |-> <<>>, sent |-> {}, returned |-> FALSE]

\* the rows of a table: up to MaxArticles rows whose numbers appear in the
\* order 1, 2, ... of their first appearance
MaxArticles == 6

RECURSIVE NumberLists(_)
NumberLists(n) ==
  IF n = 0 THEN {<<>>}
  ELSE LET shorter == NumberLists(n - 1)
       IN shorter \cup
          {Append(l, k) : l \in {l \in shorter : Len(l) = n - 1},
                          k \in 1..MaxArticles}

FirstAppearanceOrder(l) ==
  \A i \in DOMAIN l : l[i] <= 1 + Cardinality({l[j] : j \in 1..(i - 1)})

RowsOfNumbers(l) ==
  [i \in DOMAIN l |->
     [id |-> [n |-> l[i], del |-> FALSE, row |-> i], num |-> Key(l[i], FALSE), text |-> "body"]]

\* calls of _translate_by_article_group with both services turned off: the
\* rows then carry "(Gemini 미사용)" and "(Claude 미사용)" and no request is made
InitGroup ==
  /\ \E l \in {l \in NumberLists(MaxArticles) : FirstAppearanceOrder(l)} :
       job = Job("_translate_by_article_group", RowsOfNumbers(l), FALSE, FALSE, TRUE, 0)
  /\ call = NoCall
  /\ jp = NoJapan
  /\ ParsersIdle

SpecGroup == InitGroup /\ [][NextGroup]_vars

\* ------------------------------------- translator: the other entries
\* translate_batch(batch_size=10), translate_batch_smart(batch_size=15)
BATCH_SIZE == 10
SMART_BATCH_SIZE == 15

\* one pass of the loop of translate_batch over the articles
TranslateArticle ==
  /\ job.phase = "called"
  /\ job.entry = "translate_batch"
  /\ ~GoesToGroups(job)
  /\ job.i <= Len(job.articles)
  /\ LET a == job.articles[job.i]
         r == IF IsPreamble(a.id) THEN PreambleResult(a)
              ELSE IF EndsWithDeleted(a.id) \/ a.text = DELETED THEN DeletedResult(a)
              ELSE TranslatedGroup(job.articles, <<job.i>>, job.use_gemini, job.use_claude)[1]
         asked == IF IsPreamble(a.id) \/ EndsWithDeleted(a.id) \/ a.text = DELETED THEN {}
                  ELSE Requests(<<job.i>>, job.use_gemini, job.use_claude)
     IN job' = [job EXCEPT !.results = Append(@, r),
                           !.sent = @ \cup asked,
                           !.progress = Append(@, [current |-> job.i,
                                                   total |-> Len(job.articles)]),
                           !.i = @ + 1]
  /\ UNCHANGED <<parserVars, call, jp>>

\* the groups translate_batch_smart translates and those it sets aside
RECURSIVE SelectKeys(_, _)
SelectKeys(keys, skipped) ==
  IF keys = <<>> THEN <<>>
  ELSE (IF (IsPreamble(Head(keys)) \/ EndsWithDeleted(Head(keys))) = skipped
        THEN <<Head(keys)>> ELSE <<>>) \o SelectKeys(Tail(keys), skipped)

valid_groups(arts) == SelectKeys(GroupKeys(arts, <<>>), FALSE)

skip_groups(arts) == SelectKeys(GroupKeys(arts, <<>>), TRUE)

\* the first and the last group of batch b
BatchFirst(j, b) == (b - 1) * j.batch_size + 1

BatchLast(j, b) == Min({b * j.batch_size, Len(valid_groups(j.articles))})

RECURSIVE GroupRows(_, _, _, _, _)
GroupRows(arts, keys, g, last, flags) ==
  IF g > last THEN <<>>
  ELSE TranslatedGroup(arts, Members(arts, keys[g], 1), flags.use_gemini, flags.use_claude)
       \o GroupRows(arts, keys, g + 1, last, flags)

\* one batch of translate_batch_smart: one request of each service in use
\* with the texts of all groups of the batch; when the answer of a service
\* is not the JSON asked for, one request of it for every group of the
\* batch; then a difference summary for every group
TranslateSmartBatch(gemini_json, claude_json) ==
  /\ job.phase = "called"
  /\ job.entry = "translate_batch_smart"
  /\ ~GoesToGroups(job)
  /\ BatchFirst(job, job.i) <= Len(valid_groups(job.articles))
  /\ job.use_gemini \/ gemini_json
  /\ job.use_claude \/ claude_json
  /\ LET keys == valid_groups(job.articles)
         batch == BatchFirst(job, job.i)..BatchLast(job, job.i)
         all == {i \in DOMAIN job.articles : \E g \in batch : GroupKey(job.articles[i]) = keys[g]}
         whole(service) == [service |-> service, articles |-> all]
         each(service) == {Request(service, Members(job.articles, keys[g], 1)) : g \in batch}
         asked == (IF job.use_gemini
                   THEN {whole("gemini")} \cup (IF gemini_json THEN {} ELSE each("gemini"))
                   ELSE {})
                  \cup (IF job.use_claude
                        THEN {whole("claude")} \cup (IF claude_json THEN {} ELSE each("claude"))
                        ELSE {})
                  \cup (IF job.use_gemini /\ job.use_claude THEN each("summarize_diff") ELSE {})
         total == (Len(keys) + job.batch_size - 1) \div job.batch_size
     IN job' = [job EXCEPT
                  !.results = @ \o GroupRows(job.articles, keys, BatchFirst(job, job.i),
                                             BatchLast(job, job.i), job),
                  !.sent = @ \cup asked,
                  !.progress = Append(@, [current |-> job.i, total |-> total]),
                  !.i = @ + 1]
  /\ UNCHANGED <<parserVars, call, jp>>

RECURSIVE SkippedRows(_, _)
SkippedRows(arts, keys) ==
  IF keys = <<>> THEN <<>>
  ELSE LET m == Members(arts, Head(keys), 1)
       IN [i \in DOMAIN m |-> IF IsPreamble(Head(keys)) THEN PreambleResult(arts[m[i]])
                              ELSE DeletedResult(arts[m[i]])]
          \o SkippedRows(arts, Tail(keys))

\* the end of translate_batch and of translate_batch_smart, which puts the
\* rows of the groups it set aside after the translated ones
ReturnBatch ==
  /\ job.phase = "called"
  /\ ~GoesToGroups(job)
  /\ \/ /\ job.entry = "translate_batch"
        /\ job.i > Len(job.articles)
        /\ job' = [job EXCEPT !.phase = "returned", !.returned = TRUE]
     \/ /\ job.entry = "translate_batch_smart"
        /\ BatchFirst(job, job.i) > Len(valid_groups(job.articles))
        /\ job' = [job EXCEPT !.results = @ \o SkippedRows(job.articles, skip_groups(job.articles)),
                              !.phase = "returned", !.returned = TRUE]
  /\ UNCHANGED <<parserVars, call, jp>>

NextSkip ==
  \/ NextGroup
  \/ TranslateArticle
  \/ \E gemini_json, claude_json \in BOOLEAN : TranslateSmartBatch(gemini_json, claude_json)
  \/ ReturnBatch

\* the calls: up to MaxJob articles, each a preamble or an article, with
\* or without a 항 in its id, with or without "(삭제)" at the end of its id
\* and of its 조문번호, with or without a 조문번호, with a body or "(삭제)"
MaxJob == 2

Ids == [n : {PreambleId, 1}, del : BOOLEAN, row : {0, 1}]

JobArticles ==
  {a \in [id : Ids, num : {NoNum} \cup {Key(n, d) : n \in {PreambleId, 1}, d \in BOOLEAN},
          text : {"body", DELETED}] :
     a.num = NoNum \/ (a.num.n = a.id.n /\ (a.id.del => a.num.del))}

RECURSIVE JobLists(_)
JobLists(n) ==
  IF n = 0 THEN {<<>>}
  ELSE LET shorter == JobLists(n - 1)
       IN shorter \cup {Append(l, a) : l \in {l \in shorter : Len(l) = n - 1}, a \in JobArticles}

InitSkip ==
  /\ \E arts \in JobLists(MaxJob) : \E use_gemini, use_claude, group_by_article \in BOOLEAN :
       \E entry \in {"translate_batch", "_translate_by_article_group", "translate_batch_smart"} :
         \E size \in {1, BATCH_SIZE, SMART_BATCH_SIZE} :
           /\ (entry = "translate_batch") = (size = BATCH_SIZE)
           /\ entry # "translate_batch" => group_by_article
           /\ entry = "_translate_by_article_group" => size = SMART_BATCH_SIZE
           /\ job = Job(entry, arts, use_gemini, use_claude, group_by_article, size)
  /\ call = NoCall
  /\ jp = NoJapan
  /\ ParsersIdle

SpecSkip == InitSkip /\ [][NextSkip]_vars

\* ---------------------------- translator: group translation properties
\* the input row a result was made from
InputRow(r) == r.id.row

\* where the article number of input row i appears first
FirstAppearanceOf(arts, i) ==
  CHOOSE f \in 1..i : /\ GroupKey(arts[f]) = GroupKey(arts[i])
                      /\ \A e \in 1..(f - 1) : GroupKey(arts[e]) # GroupKey(arts[i])

\* the position of the group of input row i among the groups
GroupOf(arts, i) ==
  Cardinality({FirstAppearanceOf(arts, e) : e \in 1..FirstAppearanceOf(arts, i)})

OnePerArticle(j) ==
  /\ Len(j.results) = Len(j.articles)
  /\ \A i \in DOMAIN j.articles : \E r \in DOMAIN j.results : InputRow(j.results[r]) = i
  /\ \A r \in DOMAIN j.results : j.results[r].id = j.articles[InputRow(j.results[r])].id

GroupsInFirstAppearanceOrder(j) ==
  \A r, q \in DOMAIN j.results :
    r < q =>
      LET fr == FirstAppearanceOf(j.articles, InputRow(j.results[r]))
          fq == FirstAppearanceOf(j.articles, InputRow(j.results[q]))
      IN fr < fq \/ (fr = fq /\ InputRow(j.results[r]) < InputRow(j.results[q]))

ErrorsStayInTheirGroup(j) ==
  \A r \in DOMAIN j.results :
    LET g == GroupOf(j.articles, InputRow(j.results[r]))
    IN /\ (j.results[r].gemini = WORKER_ERROR) = (j.status[g] = "raised")
       /\ (j.results[r].claude = WORKER_ERROR) = (j.status[g] = "raised")

ProgressOncePerGroup(j) ==
  /\ Len(j.progress) = Len(j.status)
  /\ \A c \in DOMAIN j.progress :
       j.progress[c] = [current |-> c, total |-> Len(j.status)]

\* C26: when _translate_by_article_group has returned, there is exactly one
\* result for every input article, the groups stand in the order in which
\* their article numbers first appear in the input, whatever the order in
\* which the workers finished and were collected, the error results are
\* those of the groups whose worker raised, and the callback was called once
\* for every group with the counts 1, 2, ... and the number of groups.
C26_GroupOrder ==
  (job.entry = "_translate_by_article_group" /\ job.returned) =>
     /\ OnePerArticle(job)
     /\ GroupsInFirstAppearanceOrder(job)
     /\ ErrorsStayInTheirGroup(job)
     /\ ProgressOncePerGroup(job)

\* more groups than workers, a later group collected before an earlier one,
\* a worker that raised and one that did not
C26_Witness ==
  /\ job.entry = "_translate_by_article_group" /\ job.returned
  /\ Len(job.status) > POOL_SIZE
  /\ \E c \in DOMAIN job.collected : \E d \in DOMAIN job.collected :
       c < d /\ job.collected[c] > job.collected[d]
  /\ \E g \in DOMAIN job.status : job.status[g] = "raised"
  /\ \E g \in DOMAIN job.status : job.status[g] = "done"

\* ------------------------------------------ translator: skipped rows
\* a preamble unit or a deleted article
NotTranslated(a) == IsPreamble(a.id) \/ EndsWithDeleted(a.id) \/ a.text = DELETED

Placeholder(r) ==
  /\ r.gemini \in {PREAMBLE_SKIPPED, DELETED, WORKER_ERROR}
  /\ r.claude = r.gemini
  /\ r.diff_summary = "-"

\* C28: in translate_batch, _translate_by_article_group and
\* translate_batch_smart no request to a translation service carries the
\* text of a preamble unit or of a deleted article (one whose id ends with
\* "(삭제)" or whose text is "(삭제)"), and the rows returned for them carry
\* the fixed placeholders and "-" as difference summary.
C28_NoCallForSkipped ==
  /\ \A r \in job.sent : \A i \in r.articles : ~NotTranslated(job.articles[i])
  /\ job.returned =>
       \A r \in DOMAIN job.results :
         (\E i \in DOMAIN job.articles :
            job.articles[i].id = job.results[r].id /\ NotTranslated(job.articles[i]))
         => (\E i \in DOMAIN job.articles :
               /\ job.articles[i].id = job.results[r].id
               /\ NotTranslated(job.articles[i])
               /\ Placeholder(job.results[r]))

\* ------------------------------------------------ japan: article numbers
\* A number is the sequence of its characters: "k1" ... "k9", "k10", "k100",
\* "k1000", "k10000" stand for 一 ... 九, 十, 百, 千, 万 and "0" ... "9" for the
\* digits.  An article id 第N条 or 第N条のM is [main |-> N, suffix |-> M], with
\* the empty sequence for no の; a text in which 第...条 does not occur has an
\* empty main.
DigitChars == <<"0", "1", "2", "3", "4", "5", "6", "7", "8", "9">>

KanjiDigits == <<"k1", "k2", "k3", "k4", "k5", "k6", "k7", "k8", "k9">>

KanjiUnits == {"k10", "k100", "k1000", "k10000"}

IndexIn(chars, c) == IF \E i \in DOMAIN chars : chars[i] = c
                     THEN CHOOSE i \in DOMAIN chars : chars[i] = c ELSE 0

\* kanji_num.isdigit()
IsDigit(num) == num # <<>> /\ \A i \in DOMAIN num : IndexIn(DigitChars, num[i]) > 0

\* int(kanji_num)
RECURSIVE ParseInt(_)
ParseInt(num) ==
  IF num = <<>> THEN 0
  ELSE 10 * ParseInt(SubSeq(num, 1, Len(num) - 1)) + (IndexIn(DigitChars, num[Len(num)]) - 1)

\* kanji_map.get(char, 0) for a character that is not 十, 百, 千 or 万
KanjiMap(char) == IndexIn(KanjiDigits, char)

UnitValue(char) ==
  IF char = "k10" THEN 10 ELSE IF char = "k100" THEN 100
  ELSE IF char = "k1000" THEN 1000 ELSE 10000

\* the loop of _kanji_to_arabic over the characters from i on
RECURSIVE KanjiLoop(_, _, _, _)
KanjiLoop(num, i, result, temp) ==
  IF i > Len(num) THEN result + temp
  ELSE IF num[i] \in KanjiUnits
       THEN KanjiLoop(num, i + 1,
                      result + (IF temp = 0 THEN 1 ELSE temp) * UnitValue(num[i]), 0)
       ELSE KanjiLoop(num, i + 1, result, KanjiMap(num[i]))

kanji_to_arabic(kanji_num) ==
  IF IsDigit(kanji_num) THEN ParseInt(kanji_num) ELSE KanjiLoop(kanji_num, 1, 0, 0)

NoArticle == [main |-> <<>>, suffix |-> <<>>]

\* re.search(pattern, article) finds 第N条
Matches(article) == article.main # <<>>

\* the variant that puts an article with の before the one without
CompareUnsuffixedLast(article1, article2) ==
  IF ~Matches(article1) \/ ~Matches(article2) THEN 0
  ELSE LET num1 == kanji_to_arabic(article1.main)
           num2 == kanji_to_arabic(article2.main)
       IN IF num1 < num2 THEN 0 - 1
          ELSE IF num1 > num2 THEN 1
          ELSE IF article1.suffix = <<>> /\ article2.suffix = <<>> THEN 0
          ELSE IF article1.suffix = <<>> THEN 1
          ELSE IF article2.suffix = <<>> THEN 0 - 1
          ELSE LET suffix_num1 == kanji_to_arabic(article1.suffix)
                   suffix_num2 == kanji_to_arabic(article2.suffix)
               IN IF suffix_num1 < suffix_num2 THEN 0 - 1
                  ELSE IF suffix_num1 > suffix_num2 THEN 1 ELSE 0

\* _compare_article_numbers: -1, 0 or 1
compare_article_numbers(article1, article2) ==
  IF ~Matches(article1) \/ ~Matches(article2) THEN 0
  ELSE LET num1 == kanji_to_arabic(article1.main)
           num2 == kanji_to_arabic(article2.main)
       IN IF num1 < num2 THEN 0 - 1
          ELSE IF num1 > num2 THEN 1
          ELSE IF article1.suffix = <<>> /\ article2.suffix = <<>> THEN 0
          ELSE IF article1.suffix = <<>> THEN 0 - 1
          ELSE IF article2.suffix = <<>> THEN 1
          ELSE LET suffix_num1 == kanji_to_arabic(article1.suffix)
                   suffix_num2 == kanji_to_arabic(article2.suffix)
               IN IF suffix_num1 < suffix_num2 THEN 0 - 1
                  ELSE IF suffix_num1 > suffix_num2 THEN 1 ELSE 0

\* ---------------------------------------------- japan: table of contents
\* The table of contents is the sequence of its _div_TOCChapter and
\* _div_TOCSection entries:
\*   [kind |-> "chapter" or "section", title |-> the number and name,
\*    ranged |-> a range of articles follows the name in brackets,
\*    start_article, end_article |-> article ids]
\* A 章 or 節 of the output is [title |-> ..., form |-> "text"] when it is the
\* text of the entry without its brackets and [title |-> ..., form |-> "title"]
\* when it is the number and the name put together again.
NoTitle == [title |-> "", form |-> ""]

TocEntry(kind, title, ranged, start, end) ==
  [kind |-> kind, title |-> title, ranged |-> ranged,
   start_article |-> start, end_article |-> end]

\* the chapter entry before entry i that is nearest to it (0: none)
RECURSIVE PreviousChapter(_, _)
PreviousChapter(toc, i) ==
  IF i <= 1 THEN 0
  ELSE IF toc[i - 1].kind = "chapter" THEN i - 1 ELSE PreviousChapter(toc, i - 1)

\* _extract_japan_chapters_from_html
RECURSIVE extract_chapters(_, _)
extract_chapters(toc, i) ==
  IF i > Len(toc) THEN <<>>
  ELSE (IF toc[i].kind = "chapter"
        THEN <<[title |-> [title |-> toc[i].title, form |-> "title"],
                ranged |-> toc[i].ranged,
                start_article |-> toc[i].start_article,
                end_article |-> toc[i].end_article]>>
        ELSE <<>>) \o extract_chapters(toc, i + 1)

\* _extract_japan_sections_from_html: a section entry without a range is
\* not matched by the pattern; the parent is the text of the nearest
\* chapter entry among the previous siblings
RECURSIVE extract_sections(_, _)
extract_sections(toc, i) ==
  IF i > Len(toc) THEN <<>>
  ELSE (IF toc[i].kind = "section" /\ toc[i].ranged
        THEN <<[title |-> [title |-> toc[i].title, form |-> "title"], ranged |-> TRUE,
                start_article |-> toc[i].start_article,
                end_article |-> toc[i].end_article,
                parent_chapter |->
                  IF PreviousChapter(toc, i) = 0 THEN NoTitle
                  ELSE [title |-> toc[PreviousChapter(toc, i)].title, form |-> "text"]]>>
        ELSE <<>>) \o extract_sections(toc, i + 1)

\* _find_hierarchy_by_article
RECURSIVE find_hierarchy_by_article(_, _)
find_hierarchy_by_article(article_id, h) ==
  IF h = <<>> THEN NoTitle
  ELSE IF /\ Head(h).ranged
          /\ compare_article_numbers(Head(h).start_article, article_id) <= 0
          /\ compare_article_numbers(article_id, Head(h).end_article) <= 0
       THEN Head(h).title
       ELSE find_hierarchy_by_article(article_id, Tail(h))

\* for s in sections: if s['title'] == current_section: ... break
RECURSIVE ParentOfTitle(_, _)
ParentOfTitle(sections, current_section) ==
  IF sections = <<>> THEN NoTitle
  ELSE IF Head(sections).title = current_section THEN Head(sections).parent_chapter
       ELSE ParentOfTitle(Tail(sections), current_section)

\* the 章 and 節 of an article
CurrentHierarchy(toc, article_id) ==
  LET sections == extract_sections(toc, 1)
      current_section == find_hierarchy_by_article(article_id, sections)
      parent == IF current_section = NoTitle THEN NoTitle
                ELSE ParentOfTitle(sections, current_section)
  IN [section |-> current_section,
      chapter |-> IF parent # NoTitle THEN parent
                  ELSE find_hierarchy_by_article(article_id, extract_chapters(toc, 1))]

\* ------------------------------------ parse_japan_html_to_dataframe
\* An article section of the document is
\*   [id |-> the article id, kind |-> "article", "untitled" (no
\*    _div_ArticleTitle with 第N条) or "appendix" (a caption with 別表),
\*    suppl |-> it lies in a SupplProvision section,
\*    rows |-> the number of 항 and 호 with a text]
\* and a row of the output is [part, chapter, section, id, row].
JapanRow(toc, a, r) ==
  LET h == CurrentHierarchy(toc, a.id)
  IN [part |-> IF a.suppl THEN "suppl" ELSE "", chapter |-> h.chapter,
      section |-> h.section, id |-> a.id, row |-> r]

\* one pass of the loop over the article sections
ParseArticle ==
  /\ ~jp.returned
  /\ jp.i <= Len(jp.articles)
  /\ LET a == jp.articles[jp.i]
     IN IF a.kind = "appendix"
        THEN jp' = [jp EXCEPT !.i = Len(jp.articles) + 1]
        ELSE IF a.kind = "untitled"
        THEN jp' = [jp EXCEPT !.i = @ + 1]
        ELSE jp' = [jp EXCEPT !.i = @ + 1,
                              !.rows = @ \o [r \in 1..a.rows |-> JapanRow(jp.toc, a, r)]]
  /\ UNCHANGED <<parserVars, call, job>>

\* return pd.DataFrame(rows)
ReturnFrame ==
  /\ ~jp.returned
  /\ jp.i > Len(jp.articles)
  /\ jp' = [jp EXCEPT !.returned = TRUE]
  /\ UNCHANGED <<parserVars, call, job>>

NextJapan == ParseArticle \/ ReturnFrame

\* the numbers of the documents, written in kanji or in digits
Mains == {2, 10, 21, 110}
Suffixes == {0, 2, 11}
Forms == {"kanji", "digits"}

\* the kanji of a number below 1000: 百 and 十 stand without 一
KanjiOf(n) ==
  LET h == n \div 100
      t == (n % 100) \div 10
      u == n % 10
  IN (IF h = 0 THEN <<>> ELSE (IF h = 1 THEN <<>> ELSE <<KanjiDigits[h]>>) \o <<"k100">>)
     \o (IF t = 0 THEN <<>> ELSE (IF t = 1 THEN <<>> ELSE <<KanjiDigits[t]>>) \o <<"k10">>)
     \o (IF u = 0 THEN <<>> ELSE <<KanjiDigits[u]>>)

RECURSIVE DigitsOf(_)
DigitsOf(n) ==
  IF n < 10 THEN <<DigitChars[n + 1]>>
  ELSE Append(DigitsOf(n \div 10), DigitChars[(n % 10) + 1])

Numeral(n, form) == IF form = "kanji" THEN KanjiOf(n) ELSE DigitsOf(n)

ArticleId(m, su, form) ==
  [main |-> Numeral(m, form), suffix |-> IF su = 0 THEN <<>> ELSE Numeral(su, form)]

ArticleIds == {ArticleId(m, su, form) : m \in Mains, su \in Suffixes, form \in Forms}

PlainArticle(id) == [id |-> id, kind |-> "article", suppl |-> FALSE, rows |-> 1]

Document(toc, arts) == [toc |-> toc, articles |-> arts, i |-> 1, rows |-> <<>>, returned |-> FALSE]

\* documents with one 節 whose range is any pair of article ids or of texts
\* without an article id, and one article
RangeDocuments(ids) ==
  {Document(<<TocEntry("chapter", "c1", FALSE, NoArticle, NoArticle),
              TocEntry("section", "s1", TRUE, x, y)>>, <<PlainArticle(z)>>) :
     x \in ids \cup {NoArticle}, y \in ids \cup {NoArticle}, z \in ids}

\* documents with a table of contents of up to MaxToc entries: 章 with or
\* without a range and 節 that may share their title, in any order
MaxToc == 4

First == ArticleId(2, 0, "kanji")
Last == ArticleId(10, 0, "kanji")

TocRanges == {<<First, First>>, <<First, Last>>}

TocEntries ==
  {TocEntry("chapter", c, FALSE, NoArticle, NoArticle) : c \in {"c1", "c2"}}
  \cup {TocEntry("chapter", c, TRUE, First, Last) : c \in {"c1", "c2"}}
  \cup {TocEntry("section", t, TRUE, r[1], r[2]) : t \in {"s1", "s2"}, r \in TocRanges}

Tocs(n) == UNION {[1..k -> TocEntries] : k \in 0..n}

\* the 章 of a table of contents are numbered in their order
ChaptersNumbered(toc) ==
  LET chapters == extract_chapters(toc, 1)
  IN /\ Len(chapters) <= 2
     /\ \A k \in DOMAIN chapters : chapters[k].title.title = <<"c1", "c2">>[k]

TocDocuments(n) ==
  {Document(toc, <<PlainArticle(ArticleId(m, su, "kanji"))>>) :
     toc \in {toc \in Tocs(n) : ChaptersNumbered(toc)},
     m \in {2, 10, 21}, su \in {0, 2}}

\* documents with up to MaxSections article sections of every kind
MaxSections == 2

ArticleSections ==
  [id : {First, ArticleId(21, 2, "digits")}, kind : {"article", "untitled", "appendix"},
   suppl : BOOLEAN, rows : 0..2]

SectionLists(n) == UNION {[1..k -> ArticleSections] : k \in 0..n}

ArticleDocuments(n) ==
  {Document(<<TocEntry("chapter", "c1", FALSE, NoArticle, NoArticle),
              TocEntry("section", "s1", TRUE, First, Last)>>, arts) :
     arts \in SectionLists(n)}

InitJapan ==
  /\ \/ jp \in RangeDocuments(ArticleIds)
     \/ jp \in TocDocuments(MaxToc)
     \/ jp \in ArticleDocuments(MaxSections)
  /\ call = NoCall
  /\ job = NoJob
  /\ ParsersIdle

SpecJapan == InitJapan /\ [][NextJapan]_vars

\* ------------------------------------------------- japan: properties
\* the range of entry e holds the article
Holds(e, article_id) ==
  /\ e.ranged
  /\ compare_article_numbers(e.start_article, article_id) <= 0
  /\ compare_article_numbers(article_id, e.end_article) <= 0

\* the 節 entries of the table of contents that hold the article
SectionsHolding(toc, article_id) ==
  {i \in DOMAIN toc : toc[i].kind = "section" /\ Holds(toc[i], article_id)}

\* C29: every row of the Japanese parser with a 節 has a 章, and it is the
\* 章 under which the 節 of the article stands in the table of contents.
C29_ChapterOfSection ==
  \A r \in DOMAIN jp.rows :
    jp.rows[r].section # NoTitle =>
      LET i == Min(SectionsHolding(jp.toc, jp.rows[r].id))
      IN /\ jp.rows[r].chapter # NoTitle
         /\ PreviousChapter(jp.toc, i) # 0
         /\ jp.rows[r].chapter.title = jp.toc[PreviousChapter(jp.toc, i)].title

\* the title of the first entry of h that holds the article
FirstHolding(h, article_id) ==
  IF \E i \in DOMAIN h : Holds(h[i], article_id)
  THEN h[Min({i \in DOMAIN h : Holds(h[i], article_id)})].title
  ELSE NoTitle

\* the numerals of the documents and the numbers they stand for
Numerals == {[number |-> n, numeral |-> Numeral(n, form)] :
               n \in (Mains \cup Suffixes) \ {0}, form \in Forms}

NumberOf(num) ==
  IF num = <<>> THEN 0 ELSE (CHOOSE w \in Numerals : w.numeral = num).number

\* main number, then の, then the number after の
Before(a, b) ==
  LET main1 == NumberOf(a.main)
      main2 == NumberOf(b.main)
  IN \/ main1 < main2
     \/ main1 = main2 /\ NumberOf(a.suffix) < NumberOf(b.suffix)

\* the article ids of a document: those of its articles and of its ranges
ArticleIdsOf(d) ==
  {d.articles[i].id : i \in DOMAIN d.articles}
  \cup {d.toc[i].start_article : i \in DOMAIN d.toc}
  \cup {d.toc[i].end_article : i \in DOMAIN d.toc}

\* C30: the 節 of a row is the title of the first 節 of the table of contents
\* whose range holds the article of the row under _compare_article_numbers,
\* and empty when there is none, and so is its 章 when it has no 節; on the
\* article ids of the document _compare_article_numbers is the order by main
\* number, then by the number after の with the article without の first, and
\* compare(a, b) = -compare(b, a) for all texts.
C30_FindAndCompare ==
  /\ \A r \in DOMAIN jp.rows :
       /\ jp.rows[r].section = FirstHolding(extract_sections(jp.toc, 1), jp.rows[r].id)
       /\ jp.rows[r].section = NoTitle =>
            jp.rows[r].chapter = FirstHolding(extract_chapters(jp.toc, 1), jp.rows[r].id)
  /\ jp.returned =>
       \A a, b \in ArticleIdsOf(jp) :
         /\ compare_article_numbers(a, b) = 0 - compare_article_numbers(b, a)
         /\ (Matches(a) /\ Matches(b)) =>
              compare_article_numbers(a, b) =
                IF Before(a, b) THEN 0 - 1 ELSE IF Before(b, a) THEN 1 ELSE 0

\* a row whose article stands in the ranges of two 節 with different titles,
\* after a 節 that does not hold it, and has a の that its range start lacks
C30_Witness ==
  /\ jp.returned
  /\ \E r \in DOMAIN jp.rows :
       LET sections == extract_sections(jp.toc, 1)
           id == jp.rows[r].id
       IN /\ Len(sections) >= 3
          /\ ~Holds(sections[1], id)
          /\ Holds(sections[2], id) /\ Holds(sections[3], id)
          /\ sections[2].title # sections[3].title
          /\ jp.rows[r].section = sections[2].title
          /\ id.suffix # <<>>
          /\ sections[2].start_article.main = id.main

====
